---- MODULE Spec2Model ----
(***************************************************************************)
(* A model of the ledger package: the zipper merge of two ledger files     *)
(* (tools.ZipperHTTP), the balance engine of a transaction                 *)
(* (Transaction.Balance / Canonicalize) and the transaction parser and     *)
(* formatter (parse.ParseLedgerRaw / Transaction.String).                  *)
(*                                                                         *)
(* Go slices are indexed from 0; the cursors of the model keep Go's values *)
(* and At(s, i) reads the element Go calls s[i].                           *)
(***************************************************************************)
EXTENDS Integers, Sequences, FiniteSets, TLC

\* ------------------------------------------------------------------------
\* Bounds of the model
\* ------------------------------------------------------------------------

\* Longest transaction list of the master file A of a merge.
MaxLenA == 3

\* Longest transaction list of the file B of a merge.
MaxLenB == 2

\* Most postings of a transaction that is balanced.
MaxPostings == 3

\* Largest magnitude of a posting value of a transaction that is balanced.
MaxValue == 2

\* Most indented lines of a transaction that is parsed.
MaxLines == 2

\* Most digits behind the '.' of an amount that is parsed.
MaxFracLen == 5

\* Largest magnitude of a stored value that is formatted.
MaxStored == 12000

\* Longest transaction list of a file that is tailed.
MaxTailLen == 3

\* Longest directive list of a file that is tailed.
MaxTailDirs == 2

\* Longest directive list of a file whose directives are merged.
MaxMergeDirs == 2

\* Longest attached comment line, counted behind its ';'.
MaxCommentLen == 5

\* Longest posting line, counted behind its first tab.
MaxPostingLen == 6

\* Longest transaction list of a file that is formatted.
MaxFormatLen == 2

\* Longest directive list of a file that is formatted.
MaxFormatDirs == 3

\* Longest directive list of a file whose accounts and payees are listed.
MaxListDirs == 2

\* Longest source text of the readers.
MaxInput == 4

\* Most accounts in the map given to FormatSums.
MaxSumAccounts == 3

\* The longest text between the ';' of a posting note and its line feed.
MaxNoteLen == 5

\* The longest transaction list StripHistory is called on.
MaxStripLen == 4

\* The longest log file NewClient loads, in transactions.
MaxRaw == 3

\* The number of client method calls in one run.
MaxCalls == 3

\* ------------------------------------------------------------------------
\* Helpers for Go slices
\* ------------------------------------------------------------------------

At(s, i) == s[i + 1]

InRange(s, i) == i >= 0 /\ i < Len(s)

SeqsUpTo(S, n) == UNION {[1..k -> S] : k \in 0..n}

\* Go's string comparison: bytewise lexical order. Strings that are compared
\* for order are sequences of character codes.
RECURSIVE LexLess(_, _)
LexLess(s, t) ==
    IF t = <<>> THEN FALSE
    ELSE IF s = <<>> THEN TRUE
    ELSE IF Head(s) < Head(t) THEN TRUE
    ELSE IF Head(s) > Head(t) THEN FALSE
    ELSE LexLess(Tail(s), Tail(t))

\* ------------------------------------------------------------------------
\* Transactions and directives as the merge sees them
\* ------------------------------------------------------------------------

\* The keys chooseAB is called with, in the order ZipperHTTP consults them.
TieKeys == <<"ID", "RID", "FITID">>

NoKeys == [k \in {} |-> <<>>]

\* The transactions the files of a merge are drawn from. Code is the
\* transaction's code, Date its date as a day number, KVPairs its key/value
\* pairs restricted to the keys the merge reads.
TxUniverse ==
    { [Code |-> "c1", Date |-> 1, KVPairs |-> [ID |-> <<1>>]],
      [Code |-> "c2", Date |-> 1, KVPairs |-> [ID |-> <<1, 2>>]],
      [Code |-> "c2", Date |-> 1, KVPairs |-> [ID |-> <<1, 2>>, RID |-> <<1>>]],
      [Code |-> "c3", Date |-> 1, KVPairs |-> [ID |-> <<1>>, RID |-> <<2>>, FITID |-> <<1>>]],
      [Code |-> "c4", Date |-> 1, KVPairs |-> [ID |-> <<1>>, RID |-> <<2>>, FITID |-> <<2>>]],
      [Code |-> "c5", Date |-> 2, KVPairs |-> NoKeys],
      [Code |-> "c6", Date |-> 2, KVPairs |-> [FITID |-> <<1>>]],
      [Code |-> "c7", Date |-> 2, KVPairs |-> NoKeys] }

\* The directives the files of a merge are drawn from.
DirUniverse ==
    { [Type |-> "account", Argument |-> "Assets", Lines |-> <<>>, FoundBefore |-> 1] }

DirLists == {<<>>} \cup {<<d>> : d \in DirUniverse}

NoFile == [T |-> <<>>, D |-> <<>>]

VARIABLES
    a,          \* ZipperHTTP: the master file
    b,          \* ZipperHTTP: the other file
    mpc,        \* ZipperHTTP: position in the function
    syncPoint,  \* ZipperHTTP: local syncPoint
    i1,         \* ZipperHTTP: cursor into a.T
    i2,         \* ZipperHTTP: cursor into b.T
    trs,        \* ZipperHTTP: the merged transactions so far
    drs,        \* ZipperHTTP: the merged directives
    mres,       \* ZipperHTTP: what the call returned
    run,        \* caller of the merge: 1 for merge(A, B), 2 for merge(B, A)
    first       \* caller of the merge: what merge(A, B) returned

mergeVars == <<a, b, mpc, syncPoint, i1, i2, trs, drs, mres, run, first>>

VARIABLES
    orig,       \* the postings of the transaction as they were constructed
    postings,   \* Transaction.Postings
    canon,      \* what the last Canonicalize call returned, "none" before it
    bal         \* what the last Balance call returned, and after which canon

balVars == <<orig, postings, canon, bal>>

VARIABLES
    text,       \* the input of ParseLedger
    amount,     \* the amount the input was written from, NoAmount if none
    reader,     \* ParseLedgerRaw: the CharReader cr
    ppc,        \* ParseLedgerRaw: position in the function
    current,    \* ParseLedgerRaw: the transaction being read
    rtn,        \* ParseLedgerRaw: the transactions read so far, the result
    perr,       \* ParseLedgerRaw: the error returned
    pass,       \* 1 while the input is parsed, 2 while its formatting is
    parsed1     \* what the parse of the input returned

parseVars == <<text, amount, reader, ppc, current, rtn, perr, pass, parsed1>>

VARIABLES
    written,    \* the amount a value was parsed from, NoAmount if none
    stored,     \* Posting.Value
    shown,      \* what FormatValue returned for the value
    vpc         \* "written", "stored", "rejected" or "shown"

valueVars == <<written, stored, shown, vpc>>

VARIABLES
    tailF,      \* the File *f the caller of LTail holds
    tailF0,     \* that File as it was before the first call
    tailId,     \* LTail: the argument id
    tailRid,    \* LTail: the argument rid, <<>> for ""
    tailRes,    \* what the last LTail call returned
    tailFirst,  \* what the first LTail call returned
    tailCalls,  \* the number of LTail calls made
    tpc         \* "ready", "returned" after a call, "merging" once the
                \* prefix and the tail are handed to ZipperHTTP

tailVars == <<tailF, tailF0, tailId, tailRid, tailRes, tailFirst, tailCalls, tpc>>

VARIABLES
    fmtF,       \* the File *f that Format is called on
    fmtF0,      \* that File as it was before the call
    ctr,        \* File.Format: cursor into f.T
    cdr,        \* File.Format: cursor into f.D
    fout,       \* File.Format: what was written to w, unit by unit
    fres,       \* File.Format: "running", or what it returned
    fpc         \* File.Format: position in the function

formatVars == <<fmtF, fmtF0, ctr, cdr, fout, fres, fpc>>

VARIABLES
    listF,      \* the File *f that Accounts and Payees are called on
    accts,      \* what f.Accounts() returned
    payees      \* what f.Payees() returned

listVars == <<listF, accts, payees>>

VARIABLES
    lexIn,      \* the source text the readers are built on
    lexR,       \* the lex.CharReader on it
    plainR,     \* the parse.CharReader on it
    lexOp,      \* the consuming operation of lexR that is running, or "none"
    lexChars,   \* its chars argument
    lexBuf,     \* its buf
    lexLimit,   \* its limit argument
    lexI,       \* its loop counter i
    lexOk       \* what ReadMatchLimit returned last

lexVars == <<lexIn, lexR, plainR, lexOp, lexChars, lexBuf, lexLimit, lexI, lexOk>>

VARIABLES
    sumAccounts,    \* FormatSums: the accounts argument
    sumPad,         \* FormatSums: the pad argument
    sumRes,         \* what FormatSums returned
    sumPc           \* "idle", "call" before and "done" after the call

sumVars == <<sumAccounts, sumPad, sumRes, sumPc>>

VARIABLES
    stripF0,        \* StripHistory: f.T before the first call
    stripF,         \* f.T of the receiver
    stripFirst,     \* f.T after the first call
    stripCalls      \* the number of calls made, -1 when idle

stripVars == <<stripF0, stripF, stripFirst, stripCalls>>

VARIABLES
    ledger,         \* client.ledger: the transactions in the log file
    raw,            \* client.raw: the transactions parsed from the log file
    simple,         \* client.simple
    simpleid,       \* client.simpleid: ID to 0-based index into simple
    byid,           \* client.byid: ID to the list of its revisions
    lock,           \* client.lock: readers, the writer and whether it holds
    pcOf,           \* per goroutine: its position in the method it runs
    opOf,           \* per goroutine: the method it runs
    trOf,           \* per goroutine: the local tr of the method
    retOf,          \* per goroutine: what its last call returned
    calls           \* the number of calls started so far

clientVars == <<ledger, raw, simple, simpleid, byid, lock, pcOf, opOf, trOf, retOf, calls>>

vars == <<mergeVars, balVars, parseVars, valueVars, tailVars, formatVars, listVars, lexVars, sumVars, stripVars, clientVars>>

\* What an operation of the merge leaves alone.
MergeFrame == UNCHANGED <<balVars, parseVars, valueVars, tailVars, formatVars, listVars, lexVars, sumVars, stripVars, clientVars>>

\* What an operation on one transaction leaves alone.
BalFrame == UNCHANGED <<mergeVars, parseVars, valueVars, tailVars, formatVars, listVars, lexVars, sumVars, stripVars, clientVars>>

\* What an operation of the parser leaves alone.
ParseFrame == UNCHANGED <<mergeVars, balVars, valueVars, tailVars, formatVars, listVars, lexVars, sumVars, stripVars, clientVars>>

\* What the formatting of a value leaves alone.
ValueFrame == UNCHANGED <<mergeVars, balVars, parseVars, tailVars, formatVars, listVars, lexVars, sumVars, stripVars, clientVars>>

\* What a call of LTail leaves alone.
TailFrame == UNCHANGED <<mergeVars, balVars, parseVars, valueVars, formatVars, listVars, lexVars, sumVars, stripVars, clientVars>>

\* What File.Format leaves alone.
FormatFrame == UNCHANGED <<mergeVars, balVars, parseVars, valueVars, tailVars, listVars, lexVars, sumVars, stripVars, clientVars>>

\* What File.Accounts and File.Payees leave alone.
ListFrame == UNCHANGED <<mergeVars, balVars, parseVars, valueVars, tailVars, formatVars, lexVars, sumVars, stripVars, clientVars>>

\* What the operations of the readers leave alone.
LexFrame == UNCHANGED <<mergeVars, balVars, parseVars, valueVars, tailVars, formatVars, listVars, sumVars, stripVars, clientVars>>

\* What FormatSums leaves alone.
SumFrame == UNCHANGED <<mergeVars, balVars, parseVars, valueVars, tailVars, formatVars, listVars, lexVars, stripVars, clientVars>>

\* What File.StripHistory leaves alone.
StripFrame == UNCHANGED <<mergeVars, balVars, parseVars, valueVars, tailVars, formatVars, listVars, lexVars, sumVars, clientVars>>

\* What the methods of the client leave alone.
ClientFrame == UNCHANGED <<mergeVars, balVars, parseVars, valueVars, tailVars, formatVars, listVars, lexVars, sumVars, stripVars>>

\* ------------------------------------------------------------------------
\* Transaction.Balance and Transaction.Canonicalize
\* ------------------------------------------------------------------------

\* The accounts and the values (in 1/10000 units) postings are drawn from.
\* The values are far inside the int64 range: no sum of them wraps.
Accounts == {"Assets", "Expenses"}

Values == (0 - MaxValue)..MaxValue

PostingSet == [Account : Accounts, Value : Values, Null : BOOLEAN]

\* The nil map Balance returns next to false for multiple null postings.
NilMap == "nil"

EmptyMap == [k \in {} |-> 0]

\* accounts[k] += v on a Go map: a missing key reads as 0.
MapAdd(m, k, v) ==
    [x \in (DOMAIN m) \cup {k} |->
        IF x = k THEN (IF k \in DOMAIN m THEN m[k] ELSE 0) + v ELSE m[x]]

\* Balance with line 116 assigning instead of adding: the inferred value
\* replaces what stated postings put on the same account.
RECURSIVE Balance_Overwrite(_, _, _, _, _)
Balance_Overwrite(ps, i, sum, null, accounts) ==
    IF i >= Len(ps)
    THEN IF null # -1
         THEN [ok |-> TRUE,
               accounts |-> [x \in (DOMAIN accounts) \cup {At(ps, null).Account} |->
                                IF x = At(ps, null).Account THEN 0 - sum ELSE accounts[x]]]
         ELSE [ok |-> sum = 0, accounts |-> accounts]
    ELSE LET p == At(ps, i)
         IN  IF p.Null /\ null # -1 THEN [ok |-> FALSE, accounts |-> NilMap]
             ELSE IF p.Null THEN Balance_Overwrite(ps, i + 1, sum, i, accounts)
             ELSE Balance_Overwrite(ps, i + 1, sum + p.Value, null,
                                    MapAdd(accounts, p.Account, p.Value))

\* Transaction.Balance from posting i on, with the locals bal (sum), null and
\* accounts as they stand before posting i.
RECURSIVE Balance(_, _, _, _, _)
Balance(ps, i, sum, null, accounts) ==
    IF i >= Len(ps)
    THEN IF null # -1
         THEN [ok |-> TRUE, accounts |-> MapAdd(accounts, At(ps, null).Account, 0 - sum)]
         ELSE [ok |-> sum = 0, accounts |-> accounts]
    ELSE LET p == At(ps, i)
         IN  IF p.Null /\ null # -1 THEN [ok |-> FALSE, accounts |-> NilMap]
             ELSE IF p.Null THEN Balance(ps, i + 1, sum, i, accounts)
             ELSE Balance(ps, i + 1, sum + p.Value, null,
                          MapAdd(accounts, p.Account, p.Value))

\* Canonicalize without the test of line 130: of several null postings the
\* last one absorbs the sum.
RECURSIVE Canonicalize_LastNull(_, _, _, _)
Canonicalize_LastNull(ps, i, sum, null) ==
    IF i >= Len(ps)
    THEN IF null # -1
         THEN [err |-> "ok", postings |-> [ps EXCEPT ![null + 1].Value = 0 - sum]]
         ELSE IF sum # 0 THEN [err |-> "unbalanced", postings |-> ps]
         ELSE [err |-> "ok", postings |-> ps]
    ELSE LET p == At(ps, i)
         IN  IF p.Null THEN Canonicalize_LastNull(ps, i + 1, sum, i)
             ELSE Canonicalize_LastNull(ps, i + 1, sum + p.Value, null)

\* Canonicalize without the test of line 143: an unbalanced transaction
\* without a null posting is accepted.
RECURSIVE Canonicalize_NoSumCheck(_, _, _, _)
Canonicalize_NoSumCheck(ps, i, sum, null) ==
    IF i >= Len(ps)
    THEN IF null # -1
         THEN [err |-> "ok", postings |-> [ps EXCEPT ![null + 1].Value = 0 - sum]]
         ELSE [err |-> "ok", postings |-> ps]
    ELSE LET p == At(ps, i)
         IN  IF p.Null /\ null # -1 THEN [err |-> "multiplenull", postings |-> ps]
             ELSE IF p.Null THEN Canonicalize_NoSumCheck(ps, i + 1, sum, i)
             ELSE Canonicalize_NoSumCheck(ps, i + 1, sum + p.Value, null)

\* Transaction.Canonicalize from posting i on, with the locals bal (sum) and
\* null as they stand before posting i: the error returned and the postings
\* as the call leaves them.
RECURSIVE Canonicalize(_, _, _, _)
Canonicalize(ps, i, sum, null) ==
    IF i >= Len(ps)
    THEN IF null # -1
         THEN [err |-> "ok", postings |-> [ps EXCEPT ![null + 1].Value = 0 - sum]]
         ELSE IF sum # 0 THEN [err |-> "unbalanced", postings |-> ps]
         ELSE [err |-> "ok", postings |-> ps]
    ELSE LET p == At(ps, i)
         IN  IF p.Null /\ null # -1 THEN [err |-> "multiplenull", postings |-> ps]
             ELSE IF p.Null THEN Canonicalize(ps, i + 1, sum, i)
             ELSE Canonicalize(ps, i + 1, sum + p.Value, null)

NoBalance == [called |-> FALSE, ok |-> FALSE, accounts |-> NilMap, after |-> "none"]

\* No transaction is being balanced.
BalIdle ==
    /\ orig = <<>>
    /\ postings = <<>>
    /\ canon = "idle"
    /\ bal = NoBalance

BalInit ==
    /\ orig \in SeqsUpTo(PostingSet, MaxPostings)
    /\ postings = orig
    /\ canon = "none"
    /\ bal = NoBalance

\* A call of t.Canonicalize().
CallCanonicalize ==
    /\ canon # "idle"
    /\ LET r == Canonicalize(postings, 0, 0, -1)
       IN  /\ canon' = r.err
           /\ postings' = r.postings
    /\ UNCHANGED <<orig, bal>>
    /\ BalFrame

\* A call of t.Balance().
CallBalance ==
    /\ canon # "idle"
    /\ LET r == Balance(postings, 0, 0, -1, EmptyMap)
       IN  bal' = [called |-> TRUE, ok |-> r.ok, accounts |-> r.accounts, after |-> canon]
    /\ UNCHANGED <<orig, postings, canon>>
    /\ BalFrame

BalNext == CallCanonicalize \/ CallBalance

\* ------------------------------------------------------------------------
\* tools.ZipperHTTP
\* ------------------------------------------------------------------------

\* Directive.Compare: keyword, argument and sub-lines are equal.
Compare(d, d2) ==
    /\ d.Type = d2.Type
    /\ d.Argument = d2.Argument
    /\ d.Lines = d2.Lines

\* Lines 41-54: a.D followed by the directives of b.D that compare equal to
\* no directive of a.D. The loop of lines 52-54 assigns to the loop variable,
\* a copy, and leaves drs as it is.
MergeDirectives_Union(aD, bD) ==
    aD \o SelectSeq(bD, LAMBDA d2 : \A k \in 1..Len(aD) : d2 # aD[k])

MergeDirectives(aD, bD) ==
    aD \o SelectSeq(bD, LAMBDA d2 : \A k \in 1..Len(aD) : ~Compare(d2, aD[k]))

\* Lines 60-65: scan a.T backward from its last index for the code of b.T[0];
\* -1 when the scan runs off the front.
RECURSIVE ScanSync(_, _, _)
ScanSync(aT, code, sp) ==
    IF sp < 0 THEN sp
    ELSE IF At(aT, sp).Code = code THEN sp
    ELSE ScanSync(aT, code, sp - 1)

\* Line 66: the test that guards the "No sync point found!" return.
SyncMissing(sp, aT) == sp = Len(aT)

\* chooseAB with the comparison of line 179 turned round: of two different
\* values the lexically larger goes first.
chooseAB_LargerFirst(ka, kb, key) ==
    LET ok1 == key \in DOMAIN ka
        ok2 == key \in DOMAIN kb
    IN  IF ok1 /\ ~ok2 THEN -1
        ELSE IF ~ok1 /\ ok2 THEN 1
        ELSE IF ~ok1 /\ ~ok2 THEN 0
        ELSE IF ka[key] = kb[key] THEN 0
        ELSE IF LexLess(kb[key], ka[key]) THEN -1
        ELSE 1

\* -1 == a, 0 == neither, 1 == b
chooseAB(ka, kb, key) ==
    LET ok1 == key \in DOMAIN ka
        ok2 == key \in DOMAIN kb
    IN  IF ok1 /\ ~ok2 THEN -1
        ELSE IF ~ok1 /\ ok2 THEN 1
        ELSE IF ~ok1 /\ ~ok2 THEN 0
        ELSE IF ka[key] = kb[key] THEN 0
        ELSE IF LexLess(ka[key], kb[key]) THEN -1
        ELSE 1

\* The cascade without the return of line 150: when no key decides, the
\* master's transaction is emitted.
RECURSIVE Cascade_MasterWins(_, _, _)
Cascade_MasterWins(ka, kb, n) ==
    IF n > Len(TieKeys) THEN -1
    ELSE LET dir == chooseAB(ka, kb, TieKeys[n])
         IN  IF dir # 0 THEN dir ELSE Cascade_MasterWins(ka, kb, n + 1)

\* Lines 112-150: the first of ID, RID, FITID on which chooseAB decides;
\* 0 when none does.
RECURSIVE Cascade(_, _, _)
Cascade(ka, kb, n) ==
    IF n > Len(TieKeys) THEN 0
    ELSE LET dir == chooseAB(ka, kb, TieKeys[n])
         IN  IF dir # 0 THEN dir ELSE Cascade(ka, kb, n + 1)

\* The merge is not running.
MergeIdle ==
    /\ a = NoFile
    /\ b = NoFile
    /\ mpc = "idle"
    /\ syncPoint = 0
    /\ i1 = 0
    /\ i2 = 0
    /\ trs = <<>>
    /\ drs = <<>>
    /\ mres = [status |-> "running", file |-> NoFile]
    /\ run = 1
    /\ first = [status |-> "running", file |-> NoFile]

MergeInit ==
    /\ a \in [T : SeqsUpTo(TxUniverse, MaxLenA), D : DirLists]
    /\ b \in [T : SeqsUpTo(TxUniverse, MaxLenB), D : DirLists]
    /\ mpc = "start"
    /\ syncPoint = 0
    /\ i1 = 0
    /\ i2 = 0
    /\ trs = <<>>
    /\ drs = <<>>
    /\ mres = [status |-> "running", file |-> NoFile]
    /\ run = 1
    /\ first = [status |-> "running", file |-> NoFile]

\* The directives of the files whose directives are merged: two that differ
\* in the anchor only, one that differs in its sub-lines, one in its keyword.
MergeDirs ==
    { [Type |-> "account", Argument |-> "Assets", Lines |-> <<>>, FoundBefore |-> 0],
      [Type |-> "account", Argument |-> "Assets", Lines |-> <<>>, FoundBefore |-> 1],
      [Type |-> "account", Argument |-> "Assets", Lines |-> <<"note x">>, FoundBefore |-> 0],
      [Type |-> "commodity", Argument |-> "Assets", Lines |-> <<>>, FoundBefore |-> 1] }

\* The transaction lists of those files: empty, or one transaction.
MergeDirTx == {<<>>, <<[Code |-> "c1", Date |-> 1, KVPairs |-> [ID |-> <<1>>]]>>}

\* ZipperHTTP(a, b) on files with up to MaxMergeDirs directives each.
MergeDirInit ==
    /\ a \in [T : MergeDirTx, D : SeqsUpTo(MergeDirs, MaxMergeDirs)]
    /\ b \in [T : MergeDirTx, D : SeqsUpTo(MergeDirs, MaxMergeDirs)]
    /\ mpc = "start"
    /\ syncPoint = 0
    /\ i1 = 0
    /\ i2 = 0
    /\ trs = <<>>
    /\ drs = <<>>
    /\ mres = [status |-> "running", file |-> NoFile]
    /\ run = 1
    /\ first = [status |-> "running", file |-> NoFile]

MergePanic ==
    /\ mpc' = "done"
    /\ mres' = [status |-> "panic", file |-> NoFile]

MergeFail(err) ==
    /\ mpc' = "done"
    /\ mres' = [status |-> err, file |-> NoFile]

\* Lines 41-76: merge the directives, find the sync point, copy the master
\* up to it and set the cursors.
FindSync ==
    /\ mpc = "start"
    /\ drs' = MergeDirectives(a.D, b.D)
    /\ IF Len(a.T) > 0 /\ Len(b.T) = 0
       THEN \* b.T[0] at line 62 is out of range
            /\ MergePanic
            /\ UNCHANGED <<syncPoint, i1, i2, trs>>
       ELSE LET sp == IF Len(a.T) = 0 THEN -1
                      ELSE ScanSync(a.T, At(b.T, 0).Code, Len(a.T) - 1)
            IN  /\ syncPoint' = sp
                /\ IF SyncMissing(sp, a.T)
                   THEN /\ MergeFail("nosync")
                        /\ UNCHANGED <<i1, i2, trs>>
                   ELSE /\ trs' = SubSeq(a.T, 1, sp + 1)
                        /\ i1' = sp + 1
                        /\ i2' = 1
                        /\ mpc' = "agree"
                        /\ UNCHANGED mres
    /\ UNCHANGED <<a, b, run, first>>
    /\ MergeFrame

\* Lines 77-84: one iteration of the loop that copies the run both files
\* agree on after the sync point.
AgreeStep ==
    /\ mpc = "agree"
    /\ IF ~(i1 < Len(a.T) \/ i2 < Len(b.T))
       THEN /\ mpc' = "zip"
            /\ UNCHANGED <<i1, i2, trs, mres>>
       ELSE IF ~InRange(a.T, i1) \/ ~InRange(b.T, i2)
       THEN \* a.T[i1] or b.T[i2] at line 78 is out of range
            /\ MergePanic
            /\ UNCHANGED <<i1, i2, trs>>
       ELSE IF At(a.T, i1).Code # At(b.T, i2).Code
       THEN /\ mpc' = "zip"
            /\ UNCHANGED <<i1, i2, trs, mres>>
       ELSE /\ trs' = Append(trs, At(a.T, i1))
            /\ i1' = i1 + 1
            /\ i2' = i2 + 1
            /\ UNCHANGED <<mpc, mres>>
    /\ UNCHANGED <<a, b, syncPoint, drs, run, first>>
    /\ MergeFrame

EmitA ==
    /\ trs' = Append(trs, At(a.T, i1))
    /\ i1' = i1 + 1
    /\ UNCHANGED <<i2, mpc, mres>>

EmitB ==
    /\ trs' = Append(trs, At(b.T, i2))
    /\ i2' = i2 + 1
    /\ UNCHANGED <<i1, mpc, mres>>

\* Lines 87-152: one iteration of the loop that zips the diverged tails, or
\* the return of line 152 when both cursors are at the end.
ZipStep ==
    /\ mpc = "zip"
    /\ IF ~(i1 < Len(a.T) \/ i2 < Len(b.T))
       THEN /\ mpc' = "done"
            /\ mres' = [status |-> "ok", file |-> [T |-> trs, D |-> drs]]
            /\ UNCHANGED <<i1, i2, trs>>
       ELSE IF i1 >= Len(a.T) THEN EmitB
       ELSE IF i2 >= Len(b.T) THEN EmitA
       ELSE IF At(a.T, i1).Date < At(b.T, i2).Date THEN EmitA
       ELSE IF At(a.T, i1).Date > At(b.T, i2).Date THEN EmitB
       ELSE LET dir == Cascade(At(a.T, i1).KVPairs, At(b.T, i2).KVPairs, 1)
            IN  IF dir < 0 THEN EmitA
                ELSE IF dir > 0 THEN EmitB
                ELSE /\ MergeFail("noorder")
                     /\ UNCHANGED <<i1, i2, trs>>
    /\ UNCHANGED <<a, b, syncPoint, drs, run, first>>
    /\ MergeFrame

\* The caller passes the same two files the other way round: merge(B, A)
\* after merge(A, B) has returned.
SwapArguments ==
    /\ mpc = "done"
    /\ run = 1
    /\ run' = 2
    /\ first' = mres
    /\ a' = b
    /\ b' = a
    /\ mpc' = "start"
    /\ syncPoint' = 0
    /\ i1' = 0
    /\ i2' = 0
    /\ trs' = <<>>
    /\ drs' = <<>>
    /\ mres' = [status |-> "running", file |-> NoFile]
    /\ MergeFrame

MergeNext == FindSync \/ AgreeStep \/ ZipStep

MergeSwapNext == FindSync \/ AgreeStep \/ ZipStep \/ SwapArguments

\* ------------------------------------------------------------------------
\* parse.CharReader (src/parse/lexer.go)
\* ------------------------------------------------------------------------

\* Text is a sequence of characters, each a string of length one. NUL is the
\* zero rune ReadRune returns with io.EOF.
NUL == "NUL"

LF == "\n"

TAB == "\t"

SP == " "

Blank == {SP, TAB}

DigitChars == <<"0", "1", "2", "3", "4", "5", "6", "7", "8", "9">>

Digits == {DigitChars[k] : k \in 1..10}

\* int64(cr.C - '0') for a decimal digit.
DigitVal(c) == (CHOOSE k \in 1..10 : DigitChars[k] = c) - 1

DropCR_Once(src) ==
    IF src # <<>> /\ Head(src) = "\r" THEN Tail(src) ELSE src

\* The carriage returns ReadRune yields are skipped (goto again).
RECURSIVE DropCR(_)
DropCR(src) ==
    IF src # <<>> /\ Head(src) = "\r" THEN DropCR(Tail(src)) ELSE src

\* CharReader.Next. rest is what the source reader has not yielded yet.
Next(cr) ==
    IF cr.EOF THEN cr
    ELSE IF cr.NEOF THEN [cr EXCEPT !.EOF = TRUE]
    ELSE LET r == DropCR(cr.rest)
         IN  IF r = <<>>
             THEN [cr EXCEPT !.C = cr.NC, !.L = cr.NL, !.NC = NUL,
                             !.NEOF = TRUE, !.rest = <<>>]
             ELSE [cr EXCEPT !.C = cr.NC, !.L = cr.NL, !.NC = Head(r),
                             !.NL = IF Head(r) = LF THEN cr.NL + 1 ELSE cr.NL,
                             !.rest = Tail(r)]

NewCharReader(source, line) ==
    Next(Next([C |-> NUL, L |-> line, EOF |-> FALSE,
               NC |-> NUL, NL |-> line, NEOF |-> FALSE, rest |-> source]))

Match(cr, chars) == ~cr.EOF /\ cr.C \in chars

NMatch(cr, chars) == ~cr.NEOF /\ cr.NC \in chars

MatchNumeric(cr) == ~cr.EOF /\ cr.C \in Digits

RECURSIVE Eat(_, _)
Eat(cr, chars) ==
    IF Match(cr, chars)
    THEN LET n == Next(cr) IN IF n.EOF THEN n ELSE Eat(n, chars)
    ELSE cr

RECURSIVE EatUntil(_, _)
EatUntil(cr, chars) ==
    IF ~Match(cr, chars)
    THEN LET n == Next(cr) IN IF n.EOF THEN n ELSE EatUntil(n, chars)
    ELSE cr

\* ReadMatchLimit with the loop counter i.
RECURSIVE ReadMatchLimit(_, _, _, _, _)
ReadMatchLimit(cr, chars, buf, limit, i) ==
    IF Match(cr, chars) /\ i < limit
    THEN LET n == Next(cr)
         IN  IF n.EOF THEN [ok |-> FALSE, buf |-> Append(buf, cr.C), cr |-> n]
             ELSE ReadMatchLimit(n, chars, Append(buf, cr.C), limit, i + 1)
    ELSE [ok |-> i = limit, buf |-> buf, cr |-> cr]

RECURSIVE ReadUntil(_, _, _)
ReadUntil(cr, chars, buf) ==
    IF ~Match(cr, chars)
    THEN LET n == Next(cr)
         IN  IF n.EOF THEN [buf |-> Append(buf, cr.C), cr |-> n]
             ELSE ReadUntil(n, chars, Append(buf, cr.C))
    ELSE [buf |-> buf, cr |-> cr]

\* ------------------------------------------------------------------------
\* parse.ParseLedgerRaw (src/parse/parse.go)
\* ------------------------------------------------------------------------

NoErr == [kind |-> "none", line |-> 0]

\* The error values of src/parse/errors.go, each carrying cr.L.
Err(kind, cr) == [kind |-> kind, line |-> cr.L]

\* The loop of lines 456-461: trailing blanks are cut while more than one
\* character is left.
RECURSIVE TrimTrailing(_)
TrimTrailing(ln) ==
    IF Len(ln) > 1 /\ ln[Len(ln)] \in Blank
    THEN TrimTrailing(SubSeq(ln, 1, Len(ln) - 1))
    ELSE ln

\* The loop of lines 463-468: the counter i goes up while the line shrinks.
RECURSIVE TrimLeading(_, _)
TrimLeading(ln, i) ==
    IF i < Len(ln) /\ ln[1] \in Blank
    THEN TrimLeading(Tail(ln), i + 1)
    ELSE ln

\* Lines 452-469 on what ReadUntil left: the reader r.cr and the buffer r.buf.
Trimmed(r) ==
    IF r.cr.EOF
    THEN [err |-> Err("unexpectedend", r.cr), cr |-> r.cr, str |-> <<>>]
    ELSE [err |-> NoErr, cr |-> r.cr, str |-> TrimLeading(TrimTrailing(r.buf), 0)]

ReadUntilTrimmed(cr, chars) == Trimmed(ReadUntil(cr, chars, <<>>))

\* strings.TrimSpace on a line of text.
RECURSIVE TrimSpace(_)
TrimSpace(s) ==
    IF s # <<>> /\ Head(s) \in Blank THEN TrimSpace(Tail(s))
    ELSE IF s # <<>> /\ s[Len(s)] \in Blank THEN TrimSpace(SubSeq(s, 1, Len(s) - 1))
    ELSE s

\* The number a sequence of decimal digits writes.
RECURSIVE DigitsValue(_)
DigitsValue(ds) ==
    IF ds = <<>> THEN 0
    ELSE DigitsValue(SubSeq(ds, 1, Len(ds) - 1)) * 10 + DigitVal(ds[Len(ds)])

IsLeap(y) == (y % 4 = 0 /\ y % 100 # 0) \/ y % 400 = 0

DaysIn(y, m) ==
    IF m = 2 THEN (IF IsLeap(y) THEN 29 ELSE 28)
    ELSE IF m \in {4, 6, 9, 11} THEN 30 ELSE 31

\* The zero time.Time: January 1 of year 1.
ZeroDate == [y |-> 1, m |-> 1, d |-> 1]

\* time.Parse("2006/01/02", date) on four digits, '/', two digits, '/', two
\* digits: the month and the day must exist.
TimeParse(date, cr) ==
    IF /\ DigitsValue(SubSeq(date, 6, 7)) \in 1..12
       /\ DigitsValue(SubSeq(date, 9, 10)) >= 1
       /\ DigitsValue(SubSeq(date, 9, 10))
              <= DaysIn(DigitsValue(SubSeq(date, 1, 4)), DigitsValue(SubSeq(date, 6, 7)))
    THEN [err |-> NoErr, cr |-> cr,
          date |-> [y |-> DigitsValue(SubSeq(date, 1, 4)),
                    m |-> DigitsValue(SubSeq(date, 6, 7)),
                    d |-> DigitsValue(SubSeq(date, 9, 10))]]
    ELSE [err |-> [kind |-> "timeparse", line |-> 0], cr |-> cr, date |-> ZeroDate]

DateSeps == {"/", "-", "."}

\* return t, ErrBadDate(cr.L) and return t, ErrUnexpectedEnd(cr.L)
DateFail(kind, cr) == [err |-> Err(kind, cr), cr |-> cr, date |-> ZeroDate]

\* Lines 506-514, r what ReadMatchLimit returned for the day.
ParseDateDay(r) ==
    IF ~r.ok THEN DateFail("baddate", r.cr)
    ELSE IF r.cr.EOF THEN DateFail("unexpectedend", r.cr)
    ELSE TimeParse(r.buf, r.cr)

\* Lines 492-506, r what ReadMatchLimit returned for the month.
ParseDateMonth(r) ==
    IF ~r.ok THEN DateFail("baddate", r.cr)
    ELSE IF r.cr.EOF THEN DateFail("unexpectedend", r.cr)
    ELSE IF ~Match(r.cr, DateSeps) THEN DateFail("baddate", r.cr)
    ELSE ParseDateDay(ReadMatchLimit(Next(r.cr), Digits, Append(r.buf, "/"), 2, 0))

\* Lines 478-492, r what ReadMatchLimit returned for the year.
ParseDateYear(r) ==
    IF ~r.ok THEN DateFail("baddate", r.cr)
    ELSE IF r.cr.EOF THEN DateFail("unexpectedend", r.cr)
    ELSE IF ~Match(r.cr, DateSeps) THEN DateFail("baddate", r.cr)
    ELSE ParseDateMonth(ReadMatchLimit(Next(r.cr), Digits, Append(r.buf, "/"), 2, 0))

ParseDate(cr) == ParseDateYear(ReadMatchLimit(cr, Digits, <<>>, 4, 0))

\* ------------------------------------------------------------------------
\* ledger.Transaction and ledger.Posting as the parser builds them
\* (src/transaction.go)
\* ------------------------------------------------------------------------

StatusUndefined == 0

StatusPending == 1

StatusClear == 2


EmptyStrMap == [k \in {} |-> <<>>]

\* m[k] = v on a Go map.
MapPut(m, k, v) == [x \in (DOMAIN m) \cup {k} |-> IF x = k THEN v ELSE m[x]]

NoTx ==
    [Date |-> ZeroDate, ClearDate |-> ZeroDate, Status |-> StatusUndefined,
     Code |-> <<>>, Description |-> <<>>, Postings |-> <<>>, Comments |-> <<>>,
     Tags |-> {}, KVPairs |-> EmptyStrMap, Line |-> 0]

StatusOf(c) ==
    IF c = "*" THEN StatusClear
    ELSE IF c = "!" THEN StatusPending
    ELSE StatusUndefined

\* The reader behind the optional cleared indicator.
SkipStatus(cr) == IF cr.C \in {"*", "!"} THEN Next(cr) ELSE cr

HeaderFail(err, cr) == [err |-> err, cr |-> cr, tx |-> NoTx]

\* Lines 131-135, desc what ReadUntilTrimmed returned for the description.
HeaderEnd(desc, tx) ==
    IF desc.err # NoErr THEN HeaderFail(desc.err, desc.cr)
    ELSE [err |-> NoErr, cr |-> Next(desc.cr), tx |-> [tx EXCEPT !.Description = desc.str]]

\* Lines 125-130.
ReadDescription(cr) ==
    IF cr.EOF THEN [err |-> Err("unexpectedend", cr), cr |-> cr, str |-> <<>>]
    ELSE ReadUntilTrimmed(cr, {LF})

\* Lines 113-124, code what reading the optional code returned.
HeaderDescription(code, tx) ==
    IF code.err # NoErr THEN HeaderFail(code.err, code.cr)
    ELSE HeaderEnd(ReadDescription(Eat(code.cr, Blank)), [tx EXCEPT !.Code = code.str])

\* Lines 113-120, r what ReadUntilTrimmed returned for the code.
CodeEnd(r) ==
    IF r.err # NoErr THEN r
    ELSE IF r.cr.C = LF THEN [err |-> Err("malformed", r.cr), cr |-> r.cr, str |-> <<>>]
    ELSE [err |-> NoErr, cr |-> Next(r.cr), str |-> r.str]

\* Lines 109-121: the optional code, with cr at the '('.
ParseCode(cr) == CodeEnd(ReadUntilTrimmed(Eat(Next(cr), Blank), {")", LF}))

\* Lines 104-121.
HeaderCode(cr, tx) ==
    IF cr.EOF THEN HeaderFail(Err("unexpectedend", cr), cr)
    ELSE HeaderDescription(IF cr.C = "(" THEN ParseCode(cr)
                           ELSE [err |-> NoErr, cr |-> cr, str |-> <<>>],
                           tx)

\* Lines 87-103.
HeaderStatus(cr, tx) ==
    IF cr.EOF THEN HeaderFail(Err("unexpectedend", cr), cr)
    ELSE HeaderCode(Eat(SkipStatus(cr), Blank), [tx EXCEPT !.Status = StatusOf(cr.C)])

\* Lines 79-86, d what ParseDate returned for the clearing date.
HeaderClearDate(d, tx) ==
    IF d.err # NoErr THEN HeaderFail(d.err, d.cr)
    ELSE HeaderStatus(Eat(d.cr, Blank), [tx EXCEPT !.ClearDate = d.date])

\* Lines 72-78, d what ParseDate returned for the date.
HeaderDate(d, tx) ==
    IF d.err # NoErr THEN HeaderFail(d.err, d.cr)
    ELSE HeaderClearDate(IF d.cr.C = "=" THEN ParseDate(Next(d.cr))
                         ELSE [err |-> NoErr, cr |-> d.cr, date |-> ZeroDate],
                         [tx EXCEPT !.Date = d.date])

\* Lines 64-135: the first line of a transaction.
ParseHeader(cr) == HeaderDate(ParseDate(cr), [NoTx EXCEPT !.Line = cr.L])

\* Lines 163-274: the loop over one attached comment line, in state `state`
\* with the buffer ln, the key read so far and the tags of the transaction.
RECURSIVE CommentLoop(_, _, _, _, _)
CommentLoop(cr, state, ln, key, tags) ==
    IF Match(cr, {LF})
    THEN [err |-> NoErr, cr |-> cr, state |-> state, ln |-> ln, key |-> key, tags |-> tags]
    ELSE
    LET go(n, s, l, k, t) ==
            IF n.EOF
            THEN [err |-> Err("unexpectedend", n), cr |-> n, state |-> s,
                  ln |-> l, key |-> k, tags |-> t]
            ELSE CommentLoop(n, s, l, k, t)
    IN  IF state = 0 /\ cr.C = ":" THEN go(Next(cr), 1, ln, key, tags)
        ELSE IF state = 0 THEN go(Next(cr), 2, Append(ln, cr.C), key, tags)
        ELSE IF state = 1
        THEN IF cr.C = ":"
             THEN LET tag == TrimSpace(ln)
                  IN  IF tag # <<>>
                      THEN go(Eat(Next(cr), Blank), 1, <<>>, key, tags \cup {tag})
                      ELSE go(Eat(Next(cr), Blank), 1, ln, key, tags)
             ELSE go(Next(cr), 1, Append(ln, cr.C), key, tags)
        ELSE IF state = 2
        THEN IF cr.C = ":"
             THEN IF NMatch(cr, Blank)
                  THEN go(Eat(Next(cr), Blank), 3, <<>>, ln, tags)
                  ELSE go(Next(cr), 4, Append(ln, cr.C), key, tags)
             ELSE IF Match(cr, Blank)
             THEN go(Next(cr), 4, Append(ln, cr.C), key, tags)
             ELSE go(Next(cr), 2, Append(ln, cr.C), key, tags)
        ELSE go(Next(cr), state, Append(ln, cr.C), key, tags)

CommentStore_KeepsFirst(r, cr, tx) ==
    IF r.state = 1
    THEN IF \E k \in 1..Len(r.ln) : r.ln[k] \notin Blank
         THEN [err |-> Err("malformedtagline", cr), cr |-> cr, tx |-> tx]
         ELSE [err |-> NoErr, cr |-> cr, tx |-> [tx EXCEPT !.Tags = r.tags]]
    ELSE IF r.state = 3
    THEN [err |-> NoErr, cr |-> cr,
          tx |-> IF r.key \in DOMAIN tx.KVPairs THEN tx
                 ELSE [tx EXCEPT !.KVPairs = MapPut(tx.KVPairs, r.key, TrimSpace(r.ln))]]
    ELSE IF r.state \in {2, 4}
    THEN [err |-> NoErr, cr |-> cr,
          tx |-> [tx EXCEPT !.Comments = Append(tx.Comments, TrimSpace(r.ln))]]
    ELSE [err |-> NoErr, cr |-> cr, tx |-> tx]

\* Lines 275-296: the line is stored by the state r.state the loop ended
\* in, cr the reader behind the newline.
CommentStore(r, cr, tx) ==
    IF r.state = 1
    THEN IF \E k \in 1..Len(r.ln) : r.ln[k] \notin Blank
         THEN [err |-> Err("malformedtagline", cr), cr |-> cr, tx |-> tx]
         ELSE [err |-> NoErr, cr |-> cr, tx |-> [tx EXCEPT !.Tags = r.tags]]
    ELSE IF r.state = 3
    THEN [err |-> NoErr, cr |-> cr,
          tx |-> [tx EXCEPT !.KVPairs = MapPut(tx.KVPairs, r.key, TrimSpace(r.ln))]]
    ELSE IF r.state \in {2, 4}
    THEN [err |-> NoErr, cr |-> cr,
          tx |-> [tx EXCEPT !.Comments = Append(tx.Comments, TrimSpace(r.ln))]]
    ELSE [err |-> NoErr, cr |-> cr, tx |-> tx]

\* Lines 163-275, r what the loop over the line returned.
CommentEnd(r, tx) ==
    IF r.err # NoErr THEN [err |-> r.err, cr |-> r.cr, tx |-> tx]
    ELSE CommentStore(r, Next(r.cr), tx)

\* Lines 148-163.
CommentStart(cr, tx) ==
    IF cr.EOF THEN [err |-> Err("unexpectedend", cr), cr |-> cr, tx |-> tx]
    ELSE CommentEnd(CommentLoop(cr, 0, <<>>, <<>>, tx.Tags), tx)

\* Lines 145-297: one comment line attached to the transaction tx, with cr
\* at the ';'.
ParseCommentLine(cr, tx) == CommentStart(Eat(Next(cr), Blank), tx)


NoPosting ==
    [Status |-> StatusUndefined, Account |-> <<>>, Value |-> 0, Null |-> FALSE, Note |-> <<>>]

RECURSIVE AccountLoop_AnySpace(_, _)
AccountLoop_AnySpace(cr, buf) ==
    IF cr.C = TAB \/ cr.C = LF \/ cr.C = SP
    THEN [err |-> NoErr, cr |-> cr, buf |-> buf]
    ELSE LET n == Next(cr)
         IN  IF n.EOF THEN [err |-> Err("unexpectedend", n), cr |-> n, buf |-> buf]
             ELSE AccountLoop_AnySpace(n, Append(buf, cr.C))

\* Lines 324-335: the account name runs to a tab, a newline or two spaces.
RECURSIVE AccountLoop(_, _)
AccountLoop(cr, buf) ==
    IF cr.C = TAB \/ cr.C = LF \/ (cr.C = SP /\ cr.NC = SP)
    THEN [err |-> NoErr, cr |-> cr, buf |-> buf]
    ELSE LET n == Next(cr)
         IN  IF n.EOF THEN [err |-> Err("unexpectedend", n), cr |-> n, buf |-> buf]
             ELSE AccountLoop(n, Append(buf, cr.C))

\* Lines 369-389: the numeric part of the amount; inPart is cur == &part.
\* With the reader at the end of input on a ',' the loop of the code never
\* ends: Next no longer moves and the ',' stays current.
RECURSIVE AmountLoop(_, _, _, _, _)
AmountLoop(cr, whole, part, inPart, null) ==
    LET res(e, c) == [err |-> e, cr |-> c, whole |-> whole, part |-> part, null |-> null]
    IN  IF ~(MatchNumeric(cr) \/ cr.C = "." \/ cr.C = ",") THEN res(NoErr, cr)
        ELSE IF cr.C = "."
        THEN IF inPart \/ null THEN res(Err("badamount", cr), cr)
             ELSE AmountLoop(Next(cr), whole, part, TRUE, null)
        ELSE IF cr.C = ","
        THEN IF cr.EOF THEN res([kind |-> "hang", line |-> cr.L], cr)
             ELSE AmountLoop(Next(cr), whole, part, inPart, null)
        ELSE LET n == Next(cr)
                 w == IF inPart THEN whole ELSE whole * 10 + DigitVal(cr.C)
                 p == IF inPart THEN part * 10 + DigitVal(cr.C) ELSE part
             IN  IF n.EOF
                 THEN [err |-> Err("unexpectedend", n), cr |-> n,
                       whole |-> w, part |-> p, null |-> FALSE]
                 ELSE AmountLoop(n, w, p, inPart, FALSE)

\* Lines 395-402: the fraction brought to 1/10000 units by its magnitude.
ScalePart(part) ==
    IF part < 9 THEN part * 1000
    ELSE IF part < 99 THEN part * 100
    ELSE IF part < 9999 THEN part * 10
    ELSE part

\* Lines 390-408, neg the sign read and r what the loop returned.
AmountValue(neg, r) ==
    IF r.err # NoErr THEN [err |-> r.err, cr |-> r.cr, value |-> 0, null |-> r.null]
    ELSE IF r.null THEN [err |-> NoErr, cr |-> r.cr, value |-> 0, null |-> TRUE]
    ELSE IF r.part > 9999
    THEN [err |-> Err("badamount", r.cr), cr |-> r.cr, value |-> 0, null |-> FALSE]
    ELSE [err |-> NoErr, cr |-> r.cr,
          value |-> IF neg THEN 0 - (r.whole * 10000 + ScalePart(r.part))
                    ELSE r.whole * 10000 + ScalePart(r.part),
          null |-> FALSE]

\* Lines 357-408: the amount, with cr behind the optional '$'.
ParseAmount(cr) ==
    AmountValue(cr.C = "-", AmountLoop(IF cr.C = "-" THEN Next(cr) ELSE cr, 0, 0, FALSE, TRUE))

PostingFail(err, cr) == [err |-> err, cr |-> cr, post |-> NoPosting]

\* Lines 429-438.
PostingEnd(cr, post) ==
    IF cr.EOF THEN PostingFail(Err("unexpectedend", cr), cr)
    ELSE IF cr.C # LF THEN PostingFail(Err("malformed", cr), cr)
    ELSE [err |-> NoErr, cr |-> Next(cr), post |-> post]

\* Lines 419-425, r what ReadUntilTrimmed returned for the note.
NoteEnd(r, post) ==
    IF r.err # NoErr THEN PostingFail(r.err, r.cr)
    ELSE [err |-> NoErr, cr |-> Next(r.cr), post |-> [post EXCEPT !.Note = r.str]]

\* Lines 411-428.
PostingNote(cr, post) ==
    IF cr.EOF THEN PostingFail(Err("unexpectedend", cr), cr)
    ELSE IF cr.C = ";" THEN NoteEnd(ReadUntilTrimmed(Next(cr), {LF}), post)
    ELSE PostingEnd(Eat(cr, Blank), post)

\* Lines 390-410, amt what reading the amount returned.
PostingAfterAmount(amt, post) ==
    IF amt.err # NoErr THEN PostingFail(amt.err, amt.cr)
    ELSE PostingNote(Eat(amt.cr, Blank),
                     [post EXCEPT !.Value = amt.value, !.Null = amt.null])

\* Lines 352-389.
PostingAmount(cr, post) ==
    IF cr.EOF THEN PostingFail(Err("unexpectedend", cr), cr)
    ELSE PostingAfterAmount(ParseAmount(cr), post)

\* Lines 342-351.
PostingCurrency(cr, post) ==
    IF cr.EOF THEN PostingFail(Err("unexpectedend", cr), cr)
    ELSE PostingAmount(IF cr.C = "$" THEN Eat(Next(cr), Blank) ELSE cr, post)

\* Lines 332-341, acc what the loop over the account name returned.
PostingAfterAccount(acc, post) ==
    IF acc.err # NoErr THEN PostingFail(acc.err, acc.cr)
    ELSE IF acc.buf = <<>> THEN PostingFail(Err("malformed", acc.cr), acc.cr)
    ELSE PostingCurrency(Eat(acc.cr, Blank), [post EXCEPT !.Account = acc.buf])

\* Lines 314-335.
PostingAccount(cr, post) ==
    IF cr.EOF THEN PostingFail(Err("unexpectedend", cr), cr)
    ELSE PostingAfterAccount(AccountLoop(cr, <<>>), post)

\* Lines 299-438: one posting line, with cr at its first non-blank character.
ParsePosting(cr) ==
    PostingAccount(Eat(SkipStatus(cr), Blank), [NoPosting EXCEPT !.Status = StatusOf(cr.C)])

\* ------------------------------------------------------------------------
\* Transaction.String and File.Format (src/transaction.go, src/file.go)
\* ------------------------------------------------------------------------

\* fmt's %v of a non-negative integer.
RECURSIVE NatChars(_)
NatChars(n) ==
    IF n < 10 THEN <<DigitChars[n + 1]>>
    ELSE NatChars(n \div 10) \o <<DigitChars[(n % 10) + 1]>>

\* fmt's %v of an integer.
IntChars(n) == IF n < 0 THEN <<"-">> \o NatChars(0 - n) ELSE NatChars(n)

\* A number in a field of `width` digits, zero padded.
RECURSIVE PadChars(_, _)
PadChars(n, width) ==
    IF width = 0 THEN <<>>
    ELSE PadChars(n \div 10, width - 1) \o <<DigitChars[(n % 10) + 1]>>

\* time.Time.Format("2006/01/02").
DateFormat(date) ==
    PadChars(date.y, 4) \o <<"/">> \o PadChars(date.m, 2) \o <<"/">> \o PadChars(date.d, 2)

RECURSIVE Concat(_)
Concat(ss) == IF ss = <<>> THEN <<>> ELSE Head(ss) \o Concat(Tail(ss))

\* fmt.Fprintf(buf, "\t%v\n", p) of line 263 with p a Posting value. String
\* is declared on *Posting (line 269), so it is not in the method set of the
\* value p and fmt does not call it: %v prints the struct field by field,
\* {Status Account Value Null Note}.
PostingValueFormat(p) ==
    <<"{">> \o IntChars(p.Status) \o <<SP>> \o p.Account \o <<SP>> \o IntChars(p.Value)
        \o <<SP>> \o (IF p.Null THEN <<"t", "r", "u", "e">> ELSE <<"f", "a", "l", "s", "e">>)
        \o <<SP>> \o p.Note \o <<"}">>

\* Transaction.String, the maps t.Tags and t.KVPairs ranged over in the order
\* tagOrder and kvOrder (Go leaves the order of a range over a map open).
TransactionString(t, tagOrder, kvOrder) ==
    DateFormat(t.Date)
    \o (IF t.ClearDate # ZeroDate THEN <<"=">> \o DateFormat(t.ClearDate) ELSE <<>>)
    \o (IF t.Status = StatusClear THEN <<SP, "*", SP>>
        ELSE IF t.Status = StatusPending THEN <<SP, "!", SP>>
        ELSE <<SP, SP, SP>>)
    \o (IF t.Code # <<>> THEN <<"(">> \o t.Code \o <<")", SP>> ELSE <<>>)
    \o t.Description \o <<LF>>
    \o Concat([k \in 1..Len(t.Comments) |-> <<TAB, ";", SP>> \o t.Comments[k] \o <<LF>>])
    \o (IF t.Tags # {}
        THEN <<TAB, ";", SP>>
             \o Concat([k \in 1..Len(tagOrder) |-> <<":">> \o tagOrder[k]])
             \o <<":", LF>>
        ELSE <<>>)
    \o Concat([k \in 1..Len(kvOrder) |->
                 <<TAB, ";", SP>> \o kvOrder[k] \o <<":", SP>> \o t.KVPairs[kvOrder[k]] \o <<LF>>])
    \o Concat([k \in 1..Len(t.Postings) |->
                 <<TAB>> \o PostingValueFormat(t.Postings[k]) \o <<LF>>])

\* The orders a range over the set S can take.
Orders(S) ==
    {s \in [1..Cardinality(S) -> S] : \A j, k \in 1..Cardinality(S) : s[j] = s[k] => j = k}

\* For every transaction of T an order of its tags and of its keys.
MapOrders(T) ==
    {f \in [1..Len(T) ->
              UNION {Orders(T[k].Tags) \X Orders(DOMAIN T[k].KVPairs) : k \in 1..Len(T)}] :
        \A k \in 1..Len(T) :
            f[k] \in Orders(T[k].Tags) \X Orders(DOMAIN T[k].KVPairs)}

\* File.Format on a file without directives: every transaction behind a
\* newline.
FileFormat(T, ord) ==
    Concat([k \in 1..Len(T) |-> <<LF>> \o TransactionString(T[k], ord[k][1], ord[k][2])])

\* ------------------------------------------------------------------------
\* The inputs of the parser
\* ------------------------------------------------------------------------

\* What stands before the transaction: nothing, a blank line, a comment.
TopLines ==
    { <<>>,
      <<LF>>,
      <<";", SP, "c", LF>> }

\* First lines of a transaction.
HeaderLines ==
    { <<"2", "0", "1", "2", "/", "0", "3", "/", "1", "0", SP, "*", SP, "T", "e", "s", "T", LF>>,
      <<"2", "0", "1", "2", "-", "0", "3", "-", "1", "0", "=", "2", "0", "1", "2", "/", "0", "3", "/", "1", "1", SP, "(", "c", ")", SP, "x", LF>>,
      <<"2", "0", "1", "2", ".", "0", "3", ".", "1", "0", SP, "!", LF>> }

\* Indented lines: a comment, tags, a key/value pair and postings.
BodyLines ==
    { <<TAB, ";", SP, "E", "x", LF>>,
      <<TAB, ";", SP, ":", "T", "1", ":", "T", "2", ":", LF>>,
      <<TAB, ";", SP, "K", ":", SP, "v", LF>>,
      <<TAB, "E", ":", "F", SP, SP, "$", "2", "0", ".", "0", "0", LF>>,
      <<TAB, "A", ":", "C", SP, "a", SP, SP, ";", SP, "n", LF>>,
      <<TAB, "*", SP, "A", SP, SP, "-", "0", ".", "5", "0", LF>> }

LedgerTexts ==
    {top \o hdr \o Concat(body) :
        top \in TopLines, hdr \in HeaderLines, body \in SeqsUpTo(BodyLines, MaxLines)}

\* Two transactions, the second with a ',' in its amount.
TwoTransactions ==
    <<"2", "0", "1", "2", "/", "0", "3", "/", "1", "0", SP, "x", LF>>
    \o <<TAB, "A", SP, SP, "$", "7", LF>>
    \o <<"2", "0", "1", "2", "/", "0", "3", "/", "1", "1", SP, "y", LF>>
    \o <<TAB, "B", SP, SP, "1", ",", "2", LF>>

\* Every input that ends somewhere inside them.
TruncatedTexts ==
    {SubSeq(TwoTransactions, 1, n) : n \in 0..Len(TwoTransactions)}

\* A transaction with the key/value line "a: x", up to the ';' of a second
\* attached comment line.
CommentPrefix ==
    <<"2", "0", "1", "2", "/", "0", "3", "/", "1", "0", SP, "x", LF>>
    \o <<TAB, ";", SP, "a", ":", SP, "x", LF>>
    \o <<TAB, ";">>

\* What stands behind that ';'.
CommentChars == {":", SP, "a", "b"}

CommentLines == UNION {[1..k -> CommentChars] : k \in 0..MaxCommentLen}

\* The first line of a transaction and the tab that starts its posting
\* line.
PostingPrefix ==
    <<"2", "0", "1", "2", "/", "0", "3", "/", "1", "0", SP, "x", LF, TAB>>

\* What stands behind that tab.
PostingChars == {"A", "1", SP, TAB}

PostingLines == UNION {[1..k -> PostingChars] : k \in 0..MaxPostingLen}

\* Written dates: a year, a month and a day of several lengths, and what
\* stands between them.
DateYears == {<<"2", "0", "1", "2">>, <<"2", "0", "1">>}

DateMonths == {<<"3">>, <<"0", "3">>, <<"1", "2">>, <<"0", "0", "3">>}

DateDays == {<<"1">>, <<"1", "0">>, <<"1", "0", "7">>}

DateBetween == {"/", "-", ".", ":"}

DateTexts ==
    {y \o <<s1>> \o m \o <<s2>> \o d :
        y \in DateYears, s1 \in DateBetween, m \in DateMonths,
        s2 \in DateBetween, d \in DateDays}

\* A written amount: the sign, the digits and ',' before the '.', and the
\* digits behind it (none: no '.' is written).
NoAmount == [sign |-> <<>>, whole |-> <<>>, frac |-> <<>>]

WholeParts == {<<"0">>, <<"7">>, <<"2", "0">>, <<"1", ",", "2">>}

FracDigits == {"0", "5", "9"}

Amounts ==
    [sign : {<<>>, <<"-">>},
     whole : WholeParts,
     frac : UNION {[1..k -> FracDigits] : k \in 0..MaxFracLen}]

AmountChars(am) ==
    am.sign \o am.whole \o (IF am.frac # <<>> THEN <<".">> \o am.frac ELSE <<>>)

\* A transaction whose one posting carries the amount am.
AmountText(am) ==
    <<"2", "0", "1", "2", "/", "0", "3", "/", "1", "0", SP, "x", LF>> \o <<TAB, "A", SP, SP, "$">> \o AmountChars(am) \o <<LF>>

\* ------------------------------------------------------------------------
\* ParseLedger as a state machine: one step per iteration of the loops of
\* ParseLedgerRaw, then File.Format of the result and a second ParseLedger
\* ------------------------------------------------------------------------

ParseIdle ==
    /\ text = <<>>
    /\ amount = NoAmount
    /\ reader = NewCharReader(<<>>, 1)
    /\ ppc = "idle"
    /\ current = NoTx
    /\ rtn = <<>>
    /\ perr = NoErr
    /\ pass = 1
    /\ parsed1 = <<>>

\* ParseLedger(text): lines 40-46.
ParseInit ==
    /\ \/ text \in LedgerTexts /\ amount = NoAmount
       \/ amount \in Amounts /\ text = AmountText(amount)
    /\ reader = NewCharReader(text, 1)
    /\ ppc = "top"
    /\ current = NoTx
    /\ rtn = <<>>
    /\ perr = NoErr
    /\ pass = 1
    /\ parsed1 = <<>>

\* ParseLedger(text) for an input that may end anywhere: lines 40-46.
TruncatedInit ==
    /\ text \in TruncatedTexts
    /\ amount = NoAmount
    /\ reader = NewCharReader(text, 1)
    /\ ppc = "top"
    /\ current = NoTx
    /\ rtn = <<>>
    /\ perr = NoErr
    /\ pass = 1
    /\ parsed1 = <<>>

\* ParseLedger(text) for a transaction with two attached comment lines:
\* lines 40-46.
CommentInit ==
    /\ text \in {CommentPrefix \o ln \o <<LF>> : ln \in CommentLines}
    /\ amount = NoAmount
    /\ reader = NewCharReader(text, 1)
    /\ ppc = "top"
    /\ current = NoTx
    /\ rtn = <<>>
    /\ perr = NoErr
    /\ pass = 1
    /\ parsed1 = <<>>

\* ParseLedger(text) for a transaction with one posting line: lines 40-46.
PostingInit ==
    /\ text \in {PostingPrefix \o ln \o <<LF>> : ln \in PostingLines}
    /\ amount = NoAmount
    /\ reader = NewCharReader(text, 1)
    /\ ppc = "top"
    /\ current = NoTx
    /\ rtn = <<>>
    /\ perr = NoErr
    /\ pass = 1
    /\ parsed1 = <<>>

\* The first line of a transaction and a posting line up to the ';' that
\* starts its note.
NotePrefix ==
    <<"2", "0", "1", "2", "/", "0", "3", "/", "1", "0", SP, "x", LF>>
    \o <<TAB, "A", SP, SP, "1", SP, ";">>

\* What stands behind that ';'.
NoteChars == {SP, TAB, "n"}

NoteTexts == UNION {[1..k -> NoteChars] : k \in 0..MaxNoteLen}

\* ParseLedger(text) for a transaction with one posting that has a note:
\* lines 40-46.
NoteInit ==
    /\ text \in {NotePrefix \o ln \o <<LF>> : ln \in NoteTexts}
    /\ amount = NoAmount
    /\ reader = NewCharReader(text, 1)
    /\ ppc = "top"
    /\ current = NoTx
    /\ rtn = <<>>
    /\ perr = NoErr
    /\ pass = 1
    /\ parsed1 = <<>>

\* ParseLedger(text) for a transaction without postings: lines 40-46.
DateInit ==
    /\ text \in {dt \o <<SP, "x", LF>> : dt \in DateTexts}
    /\ amount = NoAmount
    /\ reader = NewCharReader(text, 1)
    /\ ppc = "top"
    /\ current = NoTx
    /\ rtn = <<>>
    /\ perr = NoErr
    /\ pass = 1
    /\ parsed1 = <<>>

\* return nil, err
ParseFail(err, c) ==
    /\ ppc' = "done"
    /\ perr' = err
    /\ rtn' = <<>>
    /\ reader' = c
    /\ current' = NoTx

\* Lines 71-135: the first line of the transaction has been read as h.
StartTransaction(h) ==
    IF h.err # NoErr THEN ParseFail(h.err, h.cr)
    ELSE /\ reader' = h.cr
         /\ current' = h.tx
         /\ ppc' = "body"
         /\ UNCHANGED <<rtn, perr>>

\* Lines 50-135, with c the reader behind the leading blanks.
TopLine(c) ==
    IF c.C = LF
    THEN /\ reader' = Next(c)
         /\ UNCHANGED <<ppc, current, rtn, perr>>
    ELSE IF c.C = ";"
    THEN /\ reader' = Next(EatUntil(c, {LF}))
         /\ UNCHANGED <<ppc, current, rtn, perr>>
    ELSE StartTransaction(ParseHeader(c))

\* Lines 47-135: one iteration of the outer loop up to the end of the first
\* line of a transaction, or the return of line 444.
TopStep ==
    /\ ppc = "top"
    /\ IF reader.EOF
       THEN /\ ppc' = "done"
            /\ UNCHANGED <<reader, current, rtn, perr>>
       ELSE TopLine(Eat(reader, Blank))
    /\ UNCHANGED <<text, amount, pass, parsed1>>
    /\ ParseFrame

\* Lines 275-297: the comment line has been read as r.
AttachComment(r) ==
    IF r.err # NoErr THEN ParseFail(r.err, r.cr)
    ELSE /\ reader' = r.cr
         /\ current' = r.tx
         /\ UNCHANGED <<ppc, rtn, perr>>

\* Lines 370-381 at the end of the input with cr.C = ',': Next changes
\* nothing, the condition of the loop stays true, and no later line is
\* reached. No step leaves this position.
AmountSpin(c) ==
    /\ ppc' = "spin"
    /\ reader' = c
    /\ UNCHANGED <<current, rtn, perr>>

\* Lines 424 and 438: the posting line has been read as r.
AppendPosting(r) ==
    IF r.err.kind = "hang" THEN AmountSpin(r.cr)
    ELSE IF r.err # NoErr THEN ParseFail(r.err, r.cr)
    ELSE /\ reader' = r.cr
         /\ current' = [current EXCEPT !.Postings = Append(@, r.post)]
         /\ UNCHANGED <<ppc, rtn, perr>>

\* Lines 140-438, with c the reader behind the leading blanks.
BodyLine(c) ==
    IF c.EOF THEN ParseFail(Err("unexpectedend", c), c)
    ELSE IF c.C = ";" THEN AttachComment(ParseCommentLine(c, current))
    ELSE AppendPosting(ParsePosting(c))

\* Lines 138-441: one iteration of the loop over the indented lines of the
\* transaction, or the append of line 441 when the next line is not indented.
BodyStep ==
    /\ ppc = "body"
    /\ IF ~Match(reader, Blank)
       THEN /\ rtn' = Append(rtn, current)
            /\ current' = NoTx
            /\ ppc' = "top"
            /\ UNCHANGED <<reader, perr>>
       ELSE BodyLine(Eat(reader, Blank))
    /\ UNCHANGED <<text, amount, pass, parsed1>>
    /\ ParseFrame

\* The transactions of a successful parse are written with File.Format and
\* the output is given to ParseLedger.
FormatAndParse ==
    /\ ppc = "done"
    /\ pass = 1
    /\ perr = NoErr
    /\ \E ord \in MapOrders(rtn) : text' = FileFormat(rtn, ord)
    /\ reader' = NewCharReader(text', 1)
    /\ parsed1' = rtn
    /\ pass' = 2
    /\ rtn' = <<>>
    /\ ppc' = "top"
    /\ UNCHANGED <<amount, current, perr>>
    /\ ParseFrame

ParseNext == TopStep \/ BodyStep \/ FormatAndParse

\* One call of ParseLedger.
ParseOnceNext == TopStep \/ BodyStep

\* ------------------------------------------------------------------------
\* FormatValue (src/transaction.go)
\* ------------------------------------------------------------------------

\* Go's integer division, which truncates toward zero, for a divisor d > 0.
Quo(n, d) == IF n >= 0 THEN n \div d ELSE 0 - ((0 - n) \div d)

\* Go's remainder, which has the sign of the dividend, for a divisor d > 0.
Rem(n, d) == IF n >= 0 THEN n % d ELSE 0 - ((0 - n) % d)

\* roundToEven(ms, ls).
roundToEven(ms, ls) ==
    IF ls > 5 \/ (ls = 5 /\ Rem(ms, 2) # 0)
    THEN (IF ms > 0 THEN ms + 1 ELSE ms - 1)
    ELSE ms

\* Line 334-337: ls before it is rounded.
Cents(v) ==
    IF Quo(Rem(v, 10000), 100) < 0 THEN 0 - Quo(Rem(v, 10000), 100)
    ELSE Quo(Rem(v, 10000), 100)

\* Line 338: ls after roundToEven.
RoundedCents(v) == roundToEven(Cents(v), Quo(Rem(v, 100), 10))

\* formatHelper(v): ms, ls1 and ls2.
formatHelper(v) ==
    [ms |-> IF RoundedCents(v) > 99 THEN Quo(v, 10000) + 1 ELSE Quo(v, 10000),
     ls1 |-> IF RoundedCents(v) > 99 THEN 0 ELSE Quo(RoundedCents(v), 10),
     ls2 |-> IF RoundedCents(v) > 99 THEN 0 ELSE Rem(RoundedCents(v), 10)]

\* fmt.Sprintf("%v.%v%v", ms, ls1, ls2).
FormatValueNumber(v) ==
    IntChars(formatHelper(v).ms) \o <<".">> \o IntChars(formatHelper(v).ls1)
        \o IntChars(formatHelper(v).ls2)

\* fmt.Sprintf("$%v.%v%v", ms, ls1, ls2).
FormatValue(v) == <<"$">> \o FormatValueNumber(v)

\* The posting line "A  <amount>" read by the posting grammar of
\* ParseLedgerRaw.
ParseWrittenAmount(am) ==
    ParsePosting(NewCharReader(<<"A", SP, SP>> \o AmountChars(am) \o <<LF>>, 1))

ValueIdle ==
    /\ written = NoAmount
    /\ stored = 0
    /\ shown = <<>>
    /\ vpc = "idle"

\* A value that is stored, or an amount that is written.
ValueInit ==
    /\ \/ written = NoAmount /\ stored \in (0 - MaxStored)..MaxStored /\ vpc = "stored"
       \/ written \in Amounts /\ stored = 0 /\ vpc = "written"
    /\ shown = <<>>

\* The written amount is parsed into Posting.Value, lines 357-408 of
\* ParseLedgerRaw.
ParseWritten ==
    /\ vpc = "written"
    /\ IF ParseWrittenAmount(written).err = NoErr
       THEN /\ stored' = ParseWrittenAmount(written).post.Value
            /\ vpc' = "stored"
       ELSE /\ vpc' = "rejected"
            /\ UNCHANGED stored
    /\ UNCHANGED <<written, shown>>
    /\ ValueFrame

\* FormatValue(stored).
CallFormatValue ==
    /\ vpc = "stored"
    /\ shown' = FormatValue(stored)
    /\ vpc' = "shown"
    /\ UNCHANGED <<written, stored>>
    /\ ValueFrame

ValueNext == ParseWritten \/ CallFormatValue

\* ------------------------------------------------------------------------
\* tools.LTail (src/unnamed/part_007)
\* ------------------------------------------------------------------------

\* The transactions the files that are tailed are drawn from.
TailTx ==
    { [Code |-> "c1", Date |-> 1, KVPairs |-> [ID |-> <<1>>, RID |-> <<1>>]],
      [Code |-> "c2", Date |-> 1, KVPairs |-> [ID |-> <<1>>, RID |-> <<2>>]],
      [Code |-> "c3", Date |-> 2, KVPairs |-> [ID |-> <<2>>, RID |-> <<1>>]],
      [Code |-> "c4", Date |-> 2, KVPairs |-> [ID |-> <<1>>]] }

\* The directives of those files, with every anchor a file of that length
\* can hold.
TailDirs ==
    [Type : {"account"}, Argument : {"Assets"}, Lines : {<<>>},
     FoundBefore : 0..MaxTailLen]

\* The ids and revision ids LTail is asked for; <<>> is the empty string.
TailIds == {<<1>>, <<3>>}

TailRids == {<<>>, <<1>>}

\* Lines 30-41: the backward scan from index i; -1 when it runs off the
\* front.
RECURSIVE TailScan_IgnoreRid(_, _, _, _)
TailScan_IgnoreRid(T, id, rid, i) ==
    IF i < 0 THEN i
    ELSE IF "ID" \in DOMAIN At(T, i).KVPairs /\ At(T, i).KVPairs["ID"] = id
    THEN i
    ELSE TailScan_IgnoreRid(T, id, rid, i - 1)

RECURSIVE TailScan(_, _, _, _)
TailScan(T, id, rid, i) ==
    IF i < 0 THEN i
    ELSE IF "ID" \in DOMAIN At(T, i).KVPairs /\ At(T, i).KVPairs["ID"] = id
    THEN IF rid # <<>>
         THEN IF "RID" \in DOMAIN At(T, i).KVPairs /\ At(T, i).KVPairs["RID"] = rid
              THEN i
              ELSE TailScan(T, id, rid, i - 1)
         ELSE i
    ELSE TailScan(T, id, rid, i - 1)

\* Lines 49-54: the first index from j on whose directive has FoundBefore
\* above i, len(f.D) if there is none.
RECURSIVE TailFirstAfter(_, _, _)
TailFirstAfter(D, i, j) ==
    IF j < Len(D) /\ ~(At(D, j).FoundBefore > i) THEN TailFirstAfter(D, i, j + 1) ELSE j

\* Lines 55-60: rdrs = f.D[j:] shares its array with f.D, so the loop that
\* adjusts FoundBefore writes the elements of f.D from index j on.
TailAdjust(D, i, j) ==
    [k \in 1..Len(D) |->
        IF k > j THEN [D[k] EXCEPT !.FoundBefore = @ - i] ELSE D[k]]

\* LTail(f, id, rid) with i the index the scan ended on: what it returns and
\* the File f as the call leaves it. f.T[i:] with i = -1 is a slice bound out
\* of range.
TailFrom(f, i) ==
    IF i < 0
    THEN [status |-> "panic", file |-> NoFile, f |-> f]
    ELSE IF Len(f.D) = 0
    THEN [status |-> "ok",
          file |-> [T |-> SubSeq(f.T, i + 1, Len(f.T)), D |-> f.D],
          f |-> f]
    ELSE [status |-> "ok",
          file |-> [T |-> SubSeq(f.T, i + 1, Len(f.T)),
                    D |-> SubSeq(TailAdjust(f.D, i, TailFirstAfter(f.D, i, 0)),
                                 TailFirstAfter(f.D, i, 0) + 1, Len(f.D))],
          f |-> [f EXCEPT !.D = TailAdjust(f.D, i, TailFirstAfter(f.D, i, 0))]]

LTail(f, id, rid) == TailFrom(f, TailScan(f.T, id, rid, Len(f.T) - 1))

NoTail == [status |-> "none", file |-> NoFile]

TailIdle ==
    /\ tailF = NoFile
    /\ tailF0 = NoFile
    /\ tailId = <<>>
    /\ tailRid = <<>>
    /\ tailRes = NoTail
    /\ tailFirst = NoTail
    /\ tailCalls = 0
    /\ tpc = "idle"

TailInit ==
    /\ tailF \in [T : SeqsUpTo(TailTx, MaxTailLen), D : SeqsUpTo(TailDirs, MaxTailDirs)]
    /\ tailF0 = tailF
    /\ tailId \in TailIds
    /\ tailRid \in TailRids
    /\ tailRes = NoTail
    /\ tailFirst = NoTail
    /\ tailCalls = 0
    /\ tpc = "ready"

\* The result r of a call of LTail reaches the caller.
TailReturn(r) ==
    /\ tailRes' = [status |-> r.status, file |-> r.file]
    /\ tailFirst' = IF tailCalls = 0 THEN [status |-> r.status, file |-> r.file]
                    ELSE tailFirst
    /\ tailF' = r.f

\* tools.LTail(f, id, rid) on the caller's File, a first or a second time as
\* the sync server does on its master file for each request.
CallTail ==
    /\ tpc \in {"ready", "returned"}
    /\ tailCalls < 2
    /\ tailRes.status # "panic"
    /\ TailReturn(LTail(tailF, tailId, tailRid))
    /\ tailCalls' = tailCalls + 1
    /\ tpc' = "returned"
    /\ UNCHANGED <<tailF0, tailId, tailRid>>
    /\ TailFrame

\* The caller cuts the File at the position LTail found, keeps the part up
\* to and including that transaction with the directives LTail did not
\* return, and calls ZipperHTTP(prefix, tail).
MergePrefixWithTail ==
    /\ tpc = "returned"
    /\ tailCalls = 1
    /\ tailRes.status = "ok"
    /\ tpc' = "merging"
    /\ a' = [T |-> SubSeq(tailF0.T, 1, Len(tailF0.T) - Len(tailRes.file.T) + 1),
             D |-> SubSeq(tailF0.D, 1, Len(tailF0.D) - Len(tailRes.file.D))]
    /\ b' = tailRes.file
    /\ mpc' = "start"
    /\ syncPoint' = 0
    /\ i1' = 0
    /\ i2' = 0
    /\ trs' = <<>>
    /\ drs' = <<>>
    /\ mres' = [status |-> "running", file |-> NoFile]
    /\ UNCHANGED <<run, first>>
    /\ UNCHANGED <<tailF, tailF0, tailId, tailRid, tailRes, tailFirst, tailCalls>>
    /\ UNCHANGED <<balVars, parseVars, valueVars, formatVars, listVars, lexVars, sumVars, stripVars, clientVars>>

TailNext == CallTail

\* ------------------------------------------------------------------------
\* File.Format (src/file.go)
\* ------------------------------------------------------------------------

\* The transactions of the files that are formatted.
FormatTx ==
    { [Code |-> "c1", Date |-> 1, KVPairs |-> NoKeys],
      [Code |-> "c2", Date |-> 2, KVPairs |-> NoKeys] }

\* The anchors of their directives: the positions of a File of up to three
\* transactions, and one below them.
FormatAnchors == -1..3

FormatDirs ==
    [Type : {"account", "commodity"}, Argument : {"Assets"}, Lines : {<<>>},
     FoundBefore : FormatAnchors]

\* The directive d put into the list S, which is sorted by FoundBefore:
\* behind every directive whose FoundBefore is not above its own.
InsertByAnchor_Append(S, d) ==
    Append(S, d)

InsertByAnchor_Unstable(S, d) ==
    LET n == Cardinality({k \in 1..Len(S) : S[k].FoundBefore < d.FoundBefore})
    IN  SubSeq(S, 1, n) \o <<d>> \o SubSeq(S, n + 1, Len(S))

InsertByAnchor(S, d) ==
    LET n == Cardinality({k \in 1..Len(S) : S[k].FoundBefore <= d.FoundBefore})
    IN  SubSeq(S, 1, n) \o <<d>> \o SubSeq(S, n + 1, Len(S))

\* Lines 51-53: sort.SliceStable(f.D, ...) by FoundBefore.
RECURSIVE SliceStable(_)
SliceStable(D) ==
    IF D = <<>> THEN <<>>
    ELSE InsertByAnchor(SliceStable(SubSeq(D, 1, Len(D) - 1)), D[Len(D)])

FormatIdle ==
    /\ fmtF = NoFile
    /\ fmtF0 = NoFile
    /\ ctr = 0
    /\ cdr = 0
    /\ fout = <<>>
    /\ fres = "running"
    /\ fpc = "idle"

FormatInit ==
    /\ fmtF \in [T : SeqsUpTo(FormatTx, MaxFormatLen), D : SeqsUpTo(FormatDirs, MaxFormatDirs)]
    /\ fmtF0 = fmtF
    /\ ctr = 0
    /\ cdr = 0
    /\ fout = <<>>
    /\ fres = "running"
    /\ fpc = "start"

\* Lines 51-55: f.D is sorted in place and the cursors are set.
FormatSort ==
    /\ fpc = "start"
    /\ fmtF' = [fmtF EXCEPT !.D = SliceStable(fmtF.D)]
    /\ ctr' = 0
    /\ cdr' = 0
    /\ fpc' = "loop"
    /\ UNCHANGED <<fmtF0, fout, fres>>
    /\ FormatFrame

\* Lines 56-73: one iteration of the loop, or the return behind it. What is
\* written is recorded as the directive or the transaction whose String()
\* follows the newline.
FormatStep ==
    /\ fpc = "loop"
    /\ IF ~(ctr < Len(fmtF.T) \/ cdr < Len(fmtF.D))
       THEN /\ fres' = "ok"
            /\ fpc' = "done"
            /\ UNCHANGED <<ctr, cdr, fout>>
       ELSE IF cdr < Len(fmtF.D) /\ At(fmtF.D, cdr).FoundBefore = ctr
       THEN /\ fout' = Append(fout, [directive |-> TRUE, unit |-> At(fmtF.D, cdr)])
            /\ cdr' = cdr + 1
            /\ UNCHANGED <<ctr, fres, fpc>>
       ELSE IF ctr >= Len(fmtF.T)
       THEN /\ fres' = "ErrImproperInterleave"
            /\ fpc' = "done"
            /\ UNCHANGED <<ctr, cdr, fout>>
       ELSE /\ fout' = Append(fout, [directive |-> FALSE, unit |-> At(fmtF.T, ctr)])
            /\ ctr' = ctr + 1
            /\ UNCHANGED <<cdr, fres, fpc>>
    /\ UNCHANGED <<fmtF, fmtF0>>
    /\ FormatFrame

FormatNext == FormatSort \/ FormatStep

\* ------------------------------------------------------------------------
\* File.Accounts and File.Payees (src/file.go)
\* ------------------------------------------------------------------------

\* strings.HasPrefix(s, p)
HasPrefix(s, p) == Len(s) >= Len(p) /\ SubSeq(s, 1, Len(p)) = p

\* strings.Contains(s, "  ") || strings.ContainsAny(s, ";\t")
FunnyName(s) ==
    \/ \E k \in 1..(Len(s) - 1) : s[k] = SP /\ s[k + 1] = SP
    \/ \E k \in 1..Len(s) : s[k] \in {";", TAB}

WordDefault == <<"d", "e", "f", "a", "u", "l", "t">>

WordAlias == <<"a", "l", "i", "a", "s">>

WordPayee == <<"p", "a", "y", "e", "e">>

WordNote == <<"n", "o", "t", "e">>

WordUuid == <<"u", "u", "i", "d">>

\* sd[len(word):], trimmed.
BehindWord(sd, word) == TrimSpace(SubSeq(sd, Len(word) + 1, Len(sd)))

\* The sub-lines of the directives.
ListLines ==
    { <<>>,
      <<WordAlias \o <<SP, "b">>, WordUuid \o <<SP, "7">>>>,
      <<WordDefault, WordNote \o <<SP, "n">>, WordPayee \o <<SP, "p">>,
        WordAlias \o <<SP, "c", SP, SP, "d">>>> }

\* The directives of the files: three keywords, a name and a name with two
\* spaces in it.
ListDirs ==
    [Type : {"account", "payee", "commodity"},
     Argument : {<<"A">>, <<"A", SP, SP, "b">>},
     Lines : ListLines,
     FoundBefore : {0}]

NoList == [status |-> "none", list |-> <<>>]

\* Lines 105-125: the sub-lines sd of an account directive from index sdIx.
RECURSIVE AccountLines(_, _, _)
AccountLines(lines, sdIx, acct) ==
    IF sdIx >= Len(lines) THEN [err |-> FALSE, acct |-> acct]
    ELSE IF HasPrefix(At(lines, sdIx), WordDefault)
    THEN AccountLines(lines, sdIx + 1, [acct EXCEPT !.Default = TRUE])
    ELSE IF HasPrefix(At(lines, sdIx), WordAlias)
    THEN IF FunnyName(BehindWord(At(lines, sdIx), WordAlias))
         THEN [err |-> TRUE, acct |-> acct]
         ELSE AccountLines(lines, sdIx + 1,
                  [acct EXCEPT !.Aliases = Append(@, BehindWord(At(lines, sdIx), WordAlias))])
    ELSE IF HasPrefix(At(lines, sdIx), WordPayee)
    THEN AccountLines(lines, sdIx + 1,
             [acct EXCEPT !.Payees = Append(@, BehindWord(At(lines, sdIx), WordPayee))])
    ELSE IF HasPrefix(At(lines, sdIx), WordNote)
    THEN AccountLines(lines, sdIx + 1,
             [acct EXCEPT !.Note = BehindWord(At(lines, sdIx), WordNote)])
    ELSE AccountLines(lines, sdIx + 1, acct)

\* Lines 93-98: the Account of the directive d at index dIx.
NewAccount(d, dIx) ==
    [Name |-> d.Argument, FoundBefore |-> d.FoundBefore, DirectiveIndex |-> dIx,
     Default |-> FALSE, Aliases |-> <<>>, Payees |-> <<>>, Note |-> <<>>]

\* Lines 86-133: File.Accounts from the directive at index dIx on.
RECURSIVE AccountsFrom(_, _, _)
AccountsFrom(D, dIx, list) ==
    IF dIx >= Len(D) THEN [status |-> "ok", list |-> list]
    ELSE IF At(D, dIx).Type # "account" THEN AccountsFrom(D, dIx + 1, list)
    ELSE IF FunnyName(At(D, dIx).Argument)
    THEN [status |-> "ErrMalformedAccountName", list |-> <<>>]
    ELSE IF AccountLines(At(D, dIx).Lines, 0, NewAccount(At(D, dIx), dIx)).err
    THEN [status |-> "ErrMalformedAccountName", list |-> <<>>]
    ELSE AccountsFrom(D, dIx + 1,
             Append(list, AccountLines(At(D, dIx).Lines, 0, NewAccount(At(D, dIx), dIx)).acct))

\* f.Accounts()
FileAccounts(f) == AccountsFrom(f.D, 0, <<>>)

\* Lines 151-159: the sub-lines of a directive from index sdIx.
RECURSIVE PayeeLines(_, _, _)
PayeeLines(lines, sdIx, payee) ==
    IF sdIx >= Len(lines) THEN payee
    ELSE IF HasPrefix(At(lines, sdIx), WordAlias)
    THEN PayeeLines(lines, sdIx + 1,
             [payee EXCEPT !.Aliases = Append(@, BehindWord(At(lines, sdIx), WordAlias))])
    ELSE IF HasPrefix(At(lines, sdIx), WordUuid)
    THEN PayeeLines(lines, sdIx + 1,
             [payee EXCEPT !.Uuids = Append(@, BehindWord(At(lines, sdIx), WordUuid))])
    ELSE PayeeLines(lines, sdIx + 1, payee)

\* Lines 144-149: the Payee of the directive d at index dIx.
NewPayee(d, dIx) ==
    [Name |-> d.Argument, FoundBefore |-> d.FoundBefore, DirectiveIndex |-> dIx,
     Aliases |-> <<>>, Uuids |-> <<>>]

\* Lines 137-164: File.Payees from the directive at index dIx on. Line 140
\* compares the keyword with "account".
RECURSIVE PayeesFrom(_, _, _)
PayeesFrom(D, dIx, list) ==
    IF dIx >= Len(D) THEN [status |-> "ok", list |-> list]
    ELSE IF At(D, dIx).Type # "account" THEN PayeesFrom(D, dIx + 1, list)
    ELSE PayeesFrom(D, dIx + 1,
             Append(list, PayeeLines(At(D, dIx).Lines, 0, NewPayee(At(D, dIx), dIx))))

\* f.Payees()
FilePayees(f) == PayeesFrom(f.D, 0, <<>>)

ListIdle ==
    /\ listF = NoFile
    /\ accts = NoList
    /\ payees = NoList

ListInit ==
    /\ listF \in [T : {<<>>}, D : SeqsUpTo(ListDirs, MaxListDirs)]
    /\ accts = NoList
    /\ payees = NoList

CallAccounts ==
    /\ listF # NoFile
    /\ accts = NoList
    /\ accts' = FileAccounts(listF)
    /\ UNCHANGED <<listF, payees>>
    /\ ListFrame

CallPayees ==
    /\ listF # NoFile
    /\ payees = NoList
    /\ payees' = FilePayees(listF)
    /\ UNCHANGED <<listF, accts>>
    /\ ListFrame

ListNext == CallAccounts \/ CallPayees

\* ------------------------------------------------------------------------
\* lex.CharReader and lex.Location (src/parse/lex/lexer.go)
\* ------------------------------------------------------------------------

\* x & y on non-negative integers.
RECURSIVE BitAnd(_, _)
BitAnd(x, y) ==
    IF x = 0 \/ y = 0 THEN 0
    ELSE (x % 2) * (y % 2) + 2 * BitAnd(x \div 2, y \div 2)

\* A Location is kept as its two bit fields: line, the low 48 bits, and col,
\* the high 16 bits. No number of the model reaches the width of a field.
\* l & m
LocationAnd(l, m) == [line |-> BitAnd(l.line, m.line), col |-> BitAnd(l.col, m.col)]

\* Location.Line and Location.Column
LocationLine(l) == l.line

LocationColumn(l) == l.col

\* Location.L: l & 0xffff000000000000, then l & Location(i).
LocationL(l, n) == LocationAnd([line |-> 0, col |-> l.col], [line |-> n, col |-> 0])

\* Location.C: n is set to 0 when uint64(n) & 0x0000ffffffffffff != 0, which
\* every n but 0 satisfies; then l & 0x0000ffffffffffff and
\* l & (Location(n) << 48).
LocationC(l, n) ==
    LocationAnd([line |-> l.line, col |-> 0], [line |-> 0, col |-> IF n # 0 THEN 0 ELSE n])

\* Location.LPlus and Location.CPlus
LPlus(l) == LocationL(l, LocationLine(l))

CPlus(l) == LocationC(l, LocationColumn(l))

\* Location(0)
Location0 == [line |-> 0, col |-> 0]

\* CharReader.Next of package lex, lines 122-155.
LexNext(cr) ==
    IF cr.EOF THEN cr
    ELSE IF cr.NEOF THEN [cr EXCEPT !.EOF = TRUE]
    ELSE IF DropCR(cr.rest) = <<>>
    THEN [cr EXCEPT !.C = cr.NC, !.L = cr.NL, !.NC = NUL, !.NEOF = TRUE, !.rest = <<>>]
    ELSE [cr EXCEPT !.C = cr.NC, !.L = cr.NL, !.NC = Head(DropCR(cr.rest)),
                    !.NL = IF Head(DropCR(cr.rest)) = LF
                           THEN LocationC(LPlus(cr.NL), 0)
                           ELSE CPlus(cr.NL),
                    !.rest = Tail(DropCR(cr.rest))]

\* NewCharReader of package lex, lines 52-70.
NewLexReader(source, line) ==
    LexNext(LexNext([C |-> NUL, L |-> LocationL(Location0, line), EOF |-> FALSE,
                     NC |-> NUL, NL |-> LocationL(Location0, line), NEOF |-> FALSE,
                     rest |-> source]))

\* The characters of the source texts.
LexAlphabet == {"a", "\r", LF}

\* The chars arguments of the operations.
LexCharSets == {{"a"}, {LF}}

LexIdle ==
    /\ lexIn = <<>>
    /\ lexR = NewLexReader(<<>>, 1)
    /\ plainR = NewCharReader(<<>>, 1)
    /\ lexOp = "idle"
    /\ lexChars = {}
    /\ lexBuf = <<>>
    /\ lexLimit = 0
    /\ lexI = 0
    /\ lexOk = FALSE

\* lex.NewCharReader(lexIn, 1) and parse.NewCharReader(lexIn, 1)
LexInit ==
    /\ lexIn \in UNION {[1..k -> LexAlphabet] : k \in 0..MaxInput}
    /\ lexR = NewLexReader(lexIn, 1)
    /\ plainR = NewCharReader(lexIn, 1)
    /\ lexOp = "none"
    /\ lexChars = {}
    /\ lexBuf = <<>>
    /\ lexLimit = 0
    /\ lexI = 0
    /\ lexOk = FALSE

\* cr.Next() on each of the two readers.
Advance ==
    /\ lexOp = "none"
    /\ lexR' = LexNext(lexR)
    /\ plainR' = Next(plainR)
    /\ UNCHANGED <<lexIn, lexOp, lexChars, lexBuf, lexLimit, lexI, lexOk>>
    /\ LexFrame

\* A consuming operation of lexR is called, with an empty buf.
Consume ==
    /\ lexOp = "none"
    /\ \E o \in {"Eat", "EatUntil", "ReadMatch", "ReadMatchLimit", "ReadUntil"} :
           /\ lexOp' = o
           /\ lexLimit' = IF o = "ReadMatchLimit" THEN 2 ELSE 0
    /\ lexChars' \in LexCharSets
    /\ lexBuf' = <<>>
    /\ lexI' = 0
    /\ lexOk' = FALSE
    /\ UNCHANGED <<lexIn, lexR, plainR>>
    /\ LexFrame

\* Lines 158-165: the test of the loop of Eat and one pass through it.
EatLoop ==
    /\ lexOp = "Eat"
    /\ IF ~lexR.EOF /\ lexR.C \in lexChars
       THEN /\ lexR' = LexNext(lexR)
            /\ lexOp' = IF lexR'.EOF THEN "none" ELSE "Eat"
       ELSE /\ lexOp' = "none"
            /\ UNCHANGED lexR
    /\ UNCHANGED <<lexIn, plainR, lexChars, lexBuf, lexLimit, lexI, lexOk>>
    /\ LexFrame

EatUntilLoop_NoEndTest ==
    /\ lexOp = "EatUntil"
    /\ IF ~(~lexR.EOF /\ lexR.C \in lexChars)
       THEN /\ lexR' = LexNext(lexR)
            /\ lexOp' = "EatUntil"
       ELSE /\ lexOp' = "none"
            /\ UNCHANGED lexR
    /\ UNCHANGED <<lexIn, plainR, lexChars, lexBuf, lexLimit, lexI, lexOk>>
    /\ LexFrame

\* Lines 168-175: the test of the loop of EatUntil and one pass through it.
EatUntilLoop ==
    /\ lexOp = "EatUntil"
    /\ IF ~(~lexR.EOF /\ lexR.C \in lexChars)
       THEN /\ lexR' = LexNext(lexR)
            /\ lexOp' = IF lexR'.EOF THEN "none" ELSE "EatUntil"
       ELSE /\ lexOp' = "none"
            /\ UNCHANGED lexR
    /\ UNCHANGED <<lexIn, plainR, lexChars, lexBuf, lexLimit, lexI, lexOk>>
    /\ LexFrame

\* Lines 178-187: the test of the loop of ReadMatch and one pass through it.
ReadMatchLoop ==
    /\ lexOp = "ReadMatch"
    /\ IF ~lexR.EOF /\ lexR.C \in lexChars
       THEN /\ lexBuf' = Append(lexBuf, lexR.C)
            /\ lexR' = LexNext(lexR)
            /\ lexOp' = IF lexR'.EOF THEN "none" ELSE "ReadMatch"
       ELSE /\ lexOp' = "none"
            /\ UNCHANGED <<lexR, lexBuf>>
    /\ UNCHANGED <<lexIn, plainR, lexChars, lexLimit, lexI, lexOk>>
    /\ LexFrame

\* Lines 191-203: the test of the loop of ReadMatchLimit and one pass
\* through it.
ReadMatchLimitLoop ==
    /\ lexOp = "ReadMatchLimit"
    /\ IF ~lexR.EOF /\ lexR.C \in lexChars /\ lexI < lexLimit
       THEN /\ lexBuf' = Append(lexBuf, lexR.C)
            /\ lexR' = LexNext(lexR)
            /\ IF lexR'.EOF
               THEN lexOp' = "none" /\ lexOk' = FALSE /\ UNCHANGED lexI
               ELSE lexOp' = "ReadMatchLimit" /\ lexI' = lexI + 1 /\ UNCHANGED lexOk
       ELSE /\ lexOp' = "none"
            /\ lexOk' = (lexI = lexLimit)
            /\ UNCHANGED <<lexR, lexBuf, lexI>>
    /\ UNCHANGED <<lexIn, plainR, lexChars, lexLimit>>
    /\ LexFrame

\* Lines 206-215: the test of the loop of ReadUntil and one pass through it.
ReadUntilLoop ==
    /\ lexOp = "ReadUntil"
    /\ IF ~(~lexR.EOF /\ lexR.C \in lexChars)
       THEN /\ lexBuf' = Append(lexBuf, lexR.C)
            /\ lexR' = LexNext(lexR)
            /\ lexOp' = IF lexR'.EOF THEN "none" ELSE "ReadUntil"
       ELSE /\ lexOp' = "none"
            /\ UNCHANGED <<lexR, lexBuf>>
    /\ UNCHANGED <<lexIn, plainR, lexChars, lexLimit, lexI, lexOk>>
    /\ LexFrame

\* A pass through the loop of the operation that is running.
LexLoop == EatLoop \/ EatUntilLoop \/ ReadMatchLoop \/ ReadMatchLimitLoop \/ ReadUntilLoop

LexNextStep == Advance \/ Consume \/ LexLoop

\* ------------------------------------------------------------------------
\* FormatSums and sumTree.render (src/transaction.go)
\* ------------------------------------------------------------------------

\* The account names of the maps, each as strings.Split(account, ":") gives
\* it.
SumPaths ==
    { <<"Assets">>, <<"Assets", "Cash">>, <<"Assets", "Bank">>,
      <<"Expenses", "Food">> }

SumValues == {200000, -5000}

\* The segments in the order of sort.Strings.
SegmentOrder == <<"Assets", "Bank", "Cash", "Expenses", "Food">>

\* Lines 203-216: the nodes of the tree below the root, each named by its
\* path. (A name or an indentation is kept as the sequence of the strings
\* it was concatenated from.)
TreeNodes(accounts) ==
    {SubSeq(p, 1, k) : <<p, k>> \in {q \in (DOMAIN accounts) \X (1..2) : q[2] <= Len(q[1])}}

\* Line 213: the value of a node is the sum over the accounts below it.
RECURSIVE TreeSum(_, _)
TreeSum(accounts, S) ==
    IF S = {} THEN 0
    ELSE accounts[CHOOSE p \in S : TRUE]
             + TreeSum(accounts, S \ {CHOOSE p \in S : TRUE})

TreeValue(accounts, node) ==
    TreeSum(accounts, {p \in DOMAIN accounts :
                          Len(p) >= Len(node) /\ SubSeq(p, 1, Len(node)) = node})

\* The keys of st.children for the node st.
TreeChildren(accounts, node) ==
    {q[Len(q)] : q \in {n \in TreeNodes(accounts) :
                           Len(n) = Len(node) + 1 /\ SubSeq(n, 1, Len(node)) = node}}

\* Lines 182-186: the keys, sorted.
SortedKeys(keys) == SelectSeq(SegmentOrder, LAMBDA k : k \in keys)

\* Lines 176-180: res with the row of the node, if it has a name.
WithRow(accounts, node, name, lvl, res) ==
    IF name # <<>>
    THEN Append(res, <<lvl \o name, FormatValue(TreeValue(accounts, node))>>)
    ELSE res

\* Lines 167-191: sumTree.render on the node; renderChildren is the loop of
\* lines 188-190 over keys.
RECURSIVE render(_, _, _, _, _, _)
RECURSIVE renderChildren(_, _, _, _, _, _)
render(accounts, node, name, lvl, pad, res) ==
    IF Cardinality(TreeChildren(accounts, node)) = 1
    THEN render(accounts,
                Append(node, CHOOSE k \in TreeChildren(accounts, node) : TRUE),
                name \o <<":">> \o <<CHOOSE k \in TreeChildren(accounts, node) : TRUE>>,
                lvl, pad, res)
    ELSE renderChildren(accounts, node, SortedKeys(TreeChildren(accounts, node)),
                        lvl \o (IF name # <<>> THEN pad ELSE <<>>), pad,
                        WithRow(accounts, node, name, lvl, res))

renderChildren(accounts, node, keys, lvl, pad, res) ==
    IF keys = <<>> THEN res
    ELSE renderChildren(accounts, node, Tail(keys), lvl, pad,
                        render(accounts, Append(node, Head(keys)), <<Head(keys)>>, lvl, pad, res))

\* Lines 198-221.
FormatSums(accounts, pad) == render(accounts, <<>>, <<>>, <<>>, pad, <<>>)

SumIdle ==
    /\ sumAccounts = <<>>
    /\ sumPad = <<>>
    /\ sumRes = <<>>
    /\ sumPc = "idle"

SumInit ==
    /\ sumAccounts \in UNION {[S -> SumValues] :
                                 S \in {X \in SUBSET SumPaths : Cardinality(X) <= MaxSumAccounts}}
    /\ sumPad \in {<<" ">>, <<" ", " ">>}
    /\ sumRes = <<>>
    /\ sumPc = "call"

CallFormatSums ==
    /\ sumPc = "call"
    /\ sumRes' = FormatSums(sumAccounts, sumPad)
    /\ sumPc' = "done"
    /\ UNCHANGED <<sumAccounts, sumPad>>
    /\ SumFrame

SumNext == CallFormatSums

\* ------------------------------------------------------------------------
\* File.StripHistory
\* ------------------------------------------------------------------------

\* The transactions of the files history is stripped from: without an ID
\* pair, with an empty ID, and with one of two IDs; the description tells
\* revisions apart.
StripPairs == {EmptyStrMap} \cup {[k \in {"ID"} |-> v] : v \in {"", "p", "q"}}

StripTx == [Description : {"v1", "v2"}, KVPairs : StripPairs]

\* Lines 427-431: id, ok := tr.KVPairs["ID"]; !ok || id == "".
HasNoID(tr) == "ID" \notin DOMAIN tr.KVPairs \/ tr.KVPairs["ID"] = ""

\* The loop of lines 427-441 from the transaction at index k on.
RECURSIVE StripLoop_KeepsFirst(_, _, _, _)
StripLoop_KeepsFirst(T, k, newTrs, trIxs) ==
    IF k >= Len(T) THEN newTrs
    ELSE LET tr == At(T, k)
         IN  IF HasNoID(tr) THEN StripLoop_KeepsFirst(T, k + 1, Append(newTrs, tr), trIxs)
             ELSE IF tr.KVPairs["ID"] \in DOMAIN trIxs
             THEN StripLoop_KeepsFirst(T, k + 1, newTrs, trIxs)
             ELSE StripLoop_KeepsFirst(T, k + 1, Append(newTrs, tr),
                                       MapPut(trIxs, tr.KVPairs["ID"], Len(newTrs)))

RECURSIVE StripLoop(_, _, _, _)
StripLoop(T, k, newTrs, trIxs) ==
    IF k >= Len(T) THEN newTrs
    ELSE LET tr == At(T, k)
         IN  IF HasNoID(tr) THEN StripLoop(T, k + 1, Append(newTrs, tr), trIxs)
             ELSE IF tr.KVPairs["ID"] \in DOMAIN trIxs
             THEN StripLoop(T, k + 1,
                            [newTrs EXCEPT ![trIxs[tr.KVPairs["ID"]] + 1] = tr], trIxs)
             ELSE StripLoop(T, k + 1, Append(newTrs, tr),
                            MapPut(trIxs, tr.KVPairs["ID"], Len(newTrs)))

\* Lines 424-444: f.T after f.StripHistory().
StripHistory(T) == StripLoop(T, 0, <<>>, EmptyStrMap)

StripIdle ==
    /\ stripF0 = <<>>
    /\ stripF = <<>>
    /\ stripFirst = <<>>
    /\ stripCalls = -1

StripInit ==
    /\ stripF0 \in SeqsUpTo(StripTx, MaxStripLen)
    /\ stripF = stripF0
    /\ stripFirst = <<>>
    /\ stripCalls = 0

\* A call of f.StripHistory(), the first or the second on the same File.
CallStripHistory ==
    /\ stripCalls \in {0, 1}
    /\ stripF' = StripHistory(stripF)
    /\ stripFirst' = IF stripCalls = 0 THEN StripHistory(stripF) ELSE stripFirst
    /\ stripCalls' = stripCalls + 1
    /\ UNCHANGED stripF0
    /\ StripFrame

StripNext == CallStripHistory

\* ------------------------------------------------------------------------
\* client.Client (src/client/client.go)
\* ------------------------------------------------------------------------

\* The goroutines: two callers of client methods and the one that receives
\* from client.Events.
Procs == {"p1", "p2", "rx"}

\* What transactionIDService hands out, and the IDs of the log file.
ServiceIds == {"i1", "i2", "i3"}

\* What attachmentIDService hands out, in this order.
AttachmentIds == <<"a1", "a2", "a3", "a4">>

ClientDates == {1, 2}

\* Postings with one null posting, as the caller passes them and as
\* Canonicalize leaves them, and postings that do not balance.
OpenPostings ==
    <<[Account |-> "Assets", Value |-> 1, Null |-> FALSE],
      [Account |-> "Expenses", Value |-> 0, Null |-> TRUE]>>

ClosedPostings == Canonicalize(OpenPostings, 0, 0, -1).postings

UnbalancedPostings == <<[Account |-> "Assets", Value |-> 1, Null |-> FALSE]>>

NoClientTx == [Code |-> "", Date |-> 0, Postings |-> <<>>, KVPairs |-> EmptyStrMap]

\* The transactions of a log file: "" is a missing code.
RawTx ==
    [Code : {"", "i1", "i2"}, Date : ClientDates, Postings : {ClosedPostings},
     KVPairs : {EmptyStrMap}]

\* The transactions a caller passes to AddTransaction and AddTransactionEdit.
CallTx ==
    [Code : ServiceIds, Date : ClientDates,
     Postings : {OpenPostings, UnbalancedPostings}, KVPairs : {EmptyStrMap}]

NoLock == [readers |-> 0, writer |-> "none", held |-> FALSE]

NoReturn == [status |-> "none", trs |-> <<>>]

Returned(status) == [status |-> status, trs |-> <<>>]

\* sort.Stable with TransactionDateSorter: s[1..k-1] is sorted; insert s[k]
\* behind every element whose date is not later.
RECURSIVE InsertByDate(_, _)
InsertByDate(sorted, tr) ==
    IF sorted = <<>> THEN <<tr>>
    ELSE IF tr.Date < Head(sorted).Date THEN <<tr>> \o sorted
    ELSE <<Head(sorted)>> \o InsertByDate(Tail(sorted), tr)

\* The first n elements of s in stable date order.
RECURSIVE StableByDate(_, _)
StableByDate(s, n) ==
    IF n = 0 THEN <<>> ELSE InsertByDate(StableByDate(s, n - 1), s[n])

\* m[k] = append(m[k], v) on a Go map of slices.
MapAppend(m, k, v) == MapPut(m, k, Append(IF k \in DOMAIN m THEN m[k] ELSE <<>>, v))

\* Lines 107-123 from the transaction at index k on.
RECURSIVE NewClientLoop(_, _, _, _, _)
NewClientLoop(rw, k, smp, sid, bid) ==
    IF k >= Len(rw)
    THEN [err |-> "ok", simple |-> smp, simpleid |-> sid, byid |-> bid]
    ELSE LET tr == At(rw, k)
         IN  IF tr.Code = ""
             THEN [err |-> "missingid", simple |-> <<>>, simpleid |-> EmptyStrMap,
                   byid |-> EmptyStrMap]
             ELSE IF tr.Code \in DOMAIN sid
             THEN NewClientLoop(rw, k + 1, [smp EXCEPT ![sid[tr.Code] + 1] = tr], sid,
                                MapAppend(bid, tr.Code, tr))
             ELSE NewClientLoop(rw, k + 1, Append(smp, tr), MapPut(sid, tr.Code, Len(smp)),
                                MapAppend(bid, tr.Code, tr))

\* Lines 104-129: the lists NewClient builds from the parsed log.
Loaded(rw) ==
    LET r == NewClientLoop(rw, 0, <<>>, EmptyStrMap, EmptyStrMap)
    IN  [r EXCEPT !.simple = StableByDate(r.simple, Len(r.simple))]

\* json.Marshal of a list of attachment ids, as a list of tokens, and
\* json.Unmarshal of that text.
RECURSIVE Marshal(_)
Marshal(ids) ==
    IF ids = <<>> THEN <<"[", "]">>
    ELSE IF Len(ids) = 1 THEN <<"[", "\"", ids[1], "\"", "]">>
    ELSE <<"[", "\"", ids[1], "\"", ",">> \o Tail(Marshal(Tail(ids)))

IsJsonMark(x) == x \in {"[", "]", ",", "\""}

IsJsonText(x) == ~IsJsonMark(x)

Unmarshal(s) == SelectSeq(s, IsJsonText)

\* No client exists.
ClientIdle ==
    /\ ledger = <<>>
    /\ raw = <<>>
    /\ simple = <<>>
    /\ simpleid = EmptyStrMap
    /\ byid = EmptyStrMap
    /\ lock = NoLock
    /\ pcOf = [p \in Procs |-> "off"]
    /\ opOf = [p \in Procs |-> "none"]
    /\ trOf = [p \in Procs |-> NoClientTx]
    /\ retOf = [p \in Procs |-> NoReturn]
    /\ calls = 0

\* Before NewClient: the log file holds up to MaxRaw transactions; a
\* goroutine receives every event.
ClientInit ==
    /\ ledger \in SeqsUpTo(RawTx, MaxRaw)
    /\ raw = <<>>
    /\ simple = <<>>
    /\ simpleid = EmptyStrMap
    /\ byid = EmptyStrMap
    /\ lock = NoLock
    /\ pcOf = [p \in Procs |-> IF p = "p1" THEN "new" ELSE IF p = "rx" THEN "recv" ELSE "off"]
    /\ opOf = [p \in Procs |-> "none"]
    /\ trOf = [p \in Procs |-> NoClientTx]
    /\ retOf = [p \in Procs |-> NoReturn]
    /\ calls = 0

\* The log file of the runs with several goroutines: one transaction.
OneTransaction ==
    <<[Code |-> "i1", Date |-> 1, Postings |-> ClosedPostings, KVPairs |-> EmptyStrMap]>>

\* After NewClient on that log: the goroutines named in idle are between
\* calls, rx is in state rxpc.
ClientLoaded(idle, rxpc) ==
    /\ ledger = OneTransaction
    /\ raw = ledger
    /\ simple = Loaded(raw).simple
    /\ simpleid = Loaded(raw).simpleid
    /\ byid = Loaded(raw).byid
    /\ lock = NoLock
    /\ pcOf = [p \in Procs |-> IF p = "rx" THEN rxpc ELSE IF p \in idle THEN "idle" ELSE "off"]
    /\ opOf = [p \in Procs |-> "none"]
    /\ trOf = [p \in Procs |-> NoClientTx]
    /\ retOf = [p \in Procs |-> NoReturn]
    /\ calls = 0

\* p1 calls GetBalances, p2 adds and edits, rx receives every event.
BalancesInit == ClientLoaded({"p1", "p2"}, "recv")

\* p1 adds and edits; rx is the consumer that receives events and calls the
\* read methods.
ConsumerInit == ClientLoaded({"p1"}, "idle")

\* p1 and p2 call AddAttachment, rx receives every event.
AttachInit == ClientLoaded({"p1", "p2"}, "recv")

\* Lines 80-130.
NewClient(p) ==
    /\ pcOf[p] = "new"
    /\ raw' = ledger
    /\ LET r == Loaded(ledger)
       IN  /\ simple' = r.simple
           /\ simpleid' = r.simpleid
           /\ byid' = r.byid
           /\ retOf' = [retOf EXCEPT ![p] = Returned(r.err)]
           /\ pcOf' = [pcOf EXCEPT ![p] = IF r.err = "ok" THEN "idle" ELSE "closed"]
    /\ UNCHANGED <<ledger, lock, opOf, trOf, calls>>
    /\ ClientFrame

\* Lines 152-157 and 186-191: the call and tr.Canonicalize().
CallAdd(p, op, tr) ==
    /\ pcOf[p] = "idle"
    /\ calls < MaxCalls
    /\ calls' = calls + 1
    /\ opOf' = [opOf EXCEPT ![p] = op]
    /\ LET c == Canonicalize(tr.Postings, 0, 0, -1)
       IN  IF c.err # "ok"
           THEN /\ retOf' = [retOf EXCEPT ![p] = Returned(c.err)]
                /\ UNCHANGED <<pcOf, trOf>>
           ELSE /\ trOf' = [trOf EXCEPT ![p] = [tr EXCEPT !.Postings = c.postings]]
                /\ pcOf' = [pcOf EXCEPT ![p] = "lock"]
                /\ retOf' = [retOf EXCEPT ![p] = NoReturn]
    /\ UNCHANGED <<ledger, raw, simple, simpleid, byid, lock>>
    /\ ClientFrame

CallAddTransaction(p) == \E tr \in CallTx : CallAdd(p, "add", tr)

CallAddTransactionEdit(p) == \E tr \in CallTx : CallAdd(p, "edit", tr)

\* client.lock.Lock(), first half: the writer announces itself, which keeps
\* new readers out; a second writer waits for the first.
LockRequest(p) ==
    /\ pcOf[p] = "lock"
    /\ lock.writer = "none"
    /\ lock' = [lock EXCEPT !.writer = p]
    /\ pcOf' = [pcOf EXCEPT ![p] = "wait"]
    /\ UNCHANGED <<ledger, raw, simple, simpleid, byid, opOf, trOf, retOf, calls>>
    /\ ClientFrame

\* Lines 165-179 with the lock held: the first id, the test of the loop of
\* line 166, whose condition is the ok of its init statement, the write to
\* the log file and the update of the lists.
AddBody(p, id) ==
    LET tr == [trOf[p] EXCEPT !.Code = id]
    IN  /\ trOf' = [trOf EXCEPT ![p] = tr]
        /\ lock' = [lock EXCEPT !.held = TRUE]
        /\ IF id \in DOMAIN simpleid
           THEN /\ pcOf' = [pcOf EXCEPT ![p] = "idloop"]
                /\ UNCHANGED <<ledger, simple, simpleid, byid, retOf>>
           ELSE /\ ledger' = Append(ledger, tr)
                /\ simpleid' = MapPut(simpleid, id, Len(simple))
                /\ simple' = Append(simple, tr)
                /\ byid' = MapPut(byid, id, <<tr>>)
                /\ pcOf' = [pcOf EXCEPT ![p] = "send"]
                /\ UNCHANGED retOf

\* Lines 198-211 with the lock held; a missing parent returns through the
\* deferred Unlock.
EditBody(p) ==
    LET tr == trOf[p]
    IN  IF tr.Code \notin DOMAIN simpleid
        THEN /\ retOf' = [retOf EXCEPT ![p] = Returned("missingparent")]
             /\ pcOf' = [pcOf EXCEPT ![p] = "idle"]
             /\ lock' = NoLock
             /\ UNCHANGED <<ledger, simple, simpleid, byid, trOf>>
        ELSE /\ ledger' = Append(ledger, tr)
             /\ simple' = [simple EXCEPT ![simpleid[tr.Code] + 1] = tr]
             /\ byid' = MapAppend(byid, tr.Code, tr)
             /\ pcOf' = [pcOf EXCEPT ![p] = "send"]
             /\ lock' = [lock EXCEPT !.held = TRUE]
             /\ UNCHANGED <<simpleid, trOf, retOf>>

\* client.lock.Lock(), second half: the last reader has left. The body of
\* the method follows up to the send on client.Events.
LockAcquire(p) ==
    /\ pcOf[p] = "wait"
    /\ lock.writer = p
    /\ lock.readers = 0
    /\ IF opOf[p] = "add"
       THEN \E id \in ServiceIds : AddBody(p, id)
       ELSE EditBody(p)
    /\ UNCHANGED <<raw, opOf, calls>>
    /\ ClientFrame

\* Lines 166-168: a pass of the loop whose condition stays true.
IdLoop(p) ==
    /\ pcOf[p] = "idloop"
    /\ \E id \in ServiceIds : trOf' = [trOf EXCEPT ![p].Code = id]
    /\ UNCHANGED <<ledger, raw, simple, simpleid, byid, lock, pcOf, opOf, retOf, calls>>
    /\ ClientFrame

\* Lines 180-181 and 212-213: the send on the unbuffered channel meets the
\* receive of rx, then the deferred Unlock runs and the call returns.
SendEvent(p) ==
    /\ pcOf[p] = "send"
    /\ pcOf["rx"] \in {"recv", "idle"}
    /\ lock' = NoLock
    /\ pcOf' = [pcOf EXCEPT ![p] = "idle"]
    /\ retOf' = [retOf EXCEPT ![p] = Returned("ok")]
    /\ UNCHANGED <<ledger, raw, simple, simpleid, byid, opOf, trOf, calls>>
    /\ ClientFrame

\* The call of a read method.
CallRead(p, op) ==
    /\ pcOf[p] = "idle"
    /\ calls < MaxCalls
    /\ calls' = calls + 1
    /\ opOf' = [opOf EXCEPT ![p] = op]
    /\ pcOf' = [pcOf EXCEPT ![p] = "rlock"]
    /\ retOf' = [retOf EXCEPT ![p] = NoReturn]
    /\ UNCHANGED <<ledger, raw, simple, simpleid, byid, lock, trOf>>
    /\ ClientFrame

\* GetTransactions(FilterAllDates, FilterAllStatus, nil).
CallGetTransactions(p) == CallRead(p, "transactions")

CallGetAccountList(p) == CallRead(p, "accounts")

CallGetBalances(p) == CallRead(p, "balances")

\* client.lock.RLock() at the start of a read method (lines 219, 258, 274):
\* it waits while a writer holds the lock or has announced itself.
RLock(p) ==
    /\ pcOf[p] = "rlock"
    /\ lock.writer = "none"
    /\ lock' = [lock EXCEPT !.readers = lock.readers + 1]
    /\ pcOf' = [pcOf EXCEPT ![p] = IF opOf[p] = "balances" THEN "inner" ELSE "read"]
    /\ UNCHANGED <<ledger, raw, simple, simpleid, byid, opOf, trOf, retOf, calls>>
    /\ ClientFrame

\* Lines 261 and 274-275: GetBalances calls GetTransactions, which takes the
\* read lock again and gives it back when it returns.
InnerRLock(p) ==
    /\ pcOf[p] = "inner"
    /\ lock.writer = "none"
    /\ pcOf' = [pcOf EXCEPT ![p] = "read"]
    /\ UNCHANGED <<ledger, raw, simple, simpleid, byid, lock, opOf, trOf, retOf, calls>>
    /\ ClientFrame

\* The rest of a read method and its deferred RUnlock. GetTransactions
\* without filters returns the simplified list (lines 277-301).
ReadReturn(p) ==
    /\ pcOf[p] = "read"
    /\ lock' = [lock EXCEPT !.readers = lock.readers - 1]
    /\ pcOf' = [pcOf EXCEPT ![p] = "idle"]
    /\ retOf' = [retOf EXCEPT ![p] =
                    [status |-> "ok",
                     trs |-> IF opOf[p] = "transactions" THEN simple ELSE <<>>]]
    /\ UNCHANGED <<ledger, raw, simple, simpleid, byid, opOf, trOf, calls>>
    /\ ClientFrame

\* The attachment list of a transaction: lines 409-417.
AttachmentsOf(tr) ==
    IF "Attachments" \in DOMAIN tr.KVPairs THEN Unmarshal(tr.KVPairs["Attachments"])
    ELSE <<>>

\* Lines 419-425: tr with the attachment id aid added.
WithAttachment(tr, aid) ==
    [tr EXCEPT !.KVPairs = MapPut(tr.KVPairs, "Attachments",
                                  Marshal(Append(AttachmentsOf(tr), aid)))]

\* Lines 365-428 up to the Lock inside AddTransactionEdit: the id from
\* attachmentIDService (no two calls get the same one), the copy of the
\* authoritative revision taken under the read lock, the edit of the copy
\* and its Canonicalize.
CallAddAttachment(p, id) ==
    /\ pcOf[p] = "idle"
    /\ calls < MaxCalls
    /\ lock.writer = "none"
    /\ calls' = calls + 1
    /\ opOf' = [opOf EXCEPT ![p] = "attach"]
    /\ IF id \notin DOMAIN byid
       THEN /\ retOf' = [retOf EXCEPT ![p] = Returned("notfound")]
            /\ UNCHANGED <<pcOf, trOf>>
       ELSE LET tr == WithAttachment(byid[id][Len(byid[id])], AttachmentIds[calls + 1])
                c == Canonicalize(tr.Postings, 0, 0, -1)
            IN  /\ trOf' = [trOf EXCEPT ![p] = [tr EXCEPT !.Postings = c.postings]]
                /\ pcOf' = [pcOf EXCEPT ![p] = IF c.err = "ok" THEN "lock" ELSE "idle"]
                /\ retOf' = [retOf EXCEPT ![p] =
                                IF c.err = "ok" THEN NoReturn ELSE Returned("ok")]
    /\ UNCHANGED <<ledger, raw, simple, simpleid, byid, lock>>
    /\ ClientFrame

\* One goroutine uses the client; every event is received.
ClientNext ==
    \/ NewClient("p1")
    \/ CallAddTransaction("p1")
    \/ CallAddTransactionEdit("p1")
    \/ CallGetTransactions("p1")
    \/ LockRequest("p1")
    \/ LockAcquire("p1")
    \/ IdLoop("p1")
    \/ SendEvent("p1")
    \/ RLock("p1")
    \/ ReadReturn("p1")

\* p1 calls GetBalances while p2 adds and edits.
BalancesNext ==
    \/ CallGetBalances("p1")
    \/ RLock("p1")
    \/ InnerRLock("p1")
    \/ ReadReturn("p1")
    \/ CallAddTransaction("p2")
    \/ CallAddTransactionEdit("p2")
    \/ LockRequest("p2")
    \/ LockAcquire("p2")
    \/ IdLoop("p2")
    \/ SendEvent("p2")

\* p1 adds and edits; rx receives the events and calls the read methods, one
\* thing at a time.
ConsumerNext ==
    \/ CallAddTransaction("p1")
    \/ CallAddTransactionEdit("p1")
    \/ LockRequest("p1")
    \/ LockAcquire("p1")
    \/ IdLoop("p1")
    \/ SendEvent("p1")
    \/ CallGetTransactions("rx")
    \/ CallGetAccountList("rx")
    \/ CallGetBalances("rx")
    \/ RLock("rx")
    \/ InnerRLock("rx")
    \/ ReadReturn("rx")

\* p1 and p2 call AddAttachment for the transaction of the log and for an
\* unknown one.
AttachNext ==
    \E p \in {"p1", "p2"} :
        \/ \E id \in {"i1", "i2"} : CallAddAttachment(p, id)
        \/ LockRequest(p)
        \/ LockAcquire(p)
        \/ SendEvent(p)

TailMergeNext == CallTail \/ MergePrefixWithTail \/ FindSync \/ AgreeStep \/ ZipStep

\* ------------------------------------------------------------------------
\* Specifications
\* ------------------------------------------------------------------------

InitMerge == MergeInit /\ BalIdle /\ ParseIdle /\ ValueIdle /\ TailIdle /\ FormatIdle /\ ListIdle /\ LexIdle /\ SumIdle /\ StripIdle /\ ClientIdle

InitBalance == BalInit /\ MergeIdle /\ ParseIdle /\ ValueIdle /\ TailIdle /\ FormatIdle /\ ListIdle /\ LexIdle /\ SumIdle /\ StripIdle /\ ClientIdle

InitParse == ParseInit /\ MergeIdle /\ BalIdle /\ ValueIdle /\ TailIdle /\ FormatIdle /\ ListIdle /\ LexIdle /\ SumIdle /\ StripIdle /\ ClientIdle

InitValue == ValueInit /\ MergeIdle /\ BalIdle /\ ParseIdle /\ TailIdle /\ FormatIdle /\ ListIdle /\ LexIdle /\ SumIdle /\ StripIdle /\ ClientIdle

InitTail == TailInit /\ MergeIdle /\ BalIdle /\ ParseIdle /\ ValueIdle /\ FormatIdle /\ ListIdle /\ LexIdle /\ SumIdle /\ StripIdle /\ ClientIdle

InitMergeDirs == MergeDirInit /\ BalIdle /\ ParseIdle /\ ValueIdle /\ TailIdle /\ FormatIdle /\ ListIdle /\ LexIdle /\ SumIdle /\ StripIdle /\ ClientIdle

InitFormat ==
    FormatInit /\ MergeIdle /\ BalIdle /\ ParseIdle /\ ValueIdle /\ TailIdle /\ ListIdle /\ LexIdle /\ SumIdle /\ StripIdle /\ ClientIdle

\* One call of ZipperHTTP on every pair of files within the bounds.
SpecMerge == InitMerge /\ [][MergeNext]_vars

\* One call of ZipperHTTP on every pair of files with short transaction lists
\* and every directive list within the bounds.
SpecMergeDirs == InitMergeDirs /\ [][MergeNext]_vars

\* ZipperHTTP called on a pair of files and then on the same pair swapped.
SpecMergeSwap == InitMerge /\ [][MergeSwapNext]_vars

\* Calls of Canonicalize and Balance, in any order, on every transaction
\* within the bounds.
SpecBalance == InitBalance /\ [][BalNext]_vars

\* ParseLedger on every input text, File.Format of what it returned, and
\* ParseLedger on the formatted text.
SpecParse == InitParse /\ [][ParseNext]_vars

\* FormatValue on every stored value within the bounds and on the value
\* parsed from every written amount.
SpecValue == InitValue /\ [][ValueNext]_vars

\* One or two calls of LTail on every File, id and rid within the bounds.
SpecTail == InitTail /\ [][TailNext]_vars

InitTruncated ==
    TruncatedInit /\ MergeIdle /\ BalIdle /\ ValueIdle /\ TailIdle /\ FormatIdle /\ ListIdle /\ LexIdle /\ SumIdle /\ StripIdle /\ ClientIdle

InitComment ==
    CommentInit /\ MergeIdle /\ BalIdle /\ ValueIdle /\ TailIdle /\ FormatIdle /\ ListIdle /\ LexIdle /\ SumIdle /\ StripIdle /\ ClientIdle

\* One call of ParseLedger on a transaction with attached comment lines.
SpecComment == InitComment /\ [][ParseOnceNext]_vars

InitPosting ==
    PostingInit /\ MergeIdle /\ BalIdle /\ ValueIdle /\ TailIdle /\ FormatIdle /\ ListIdle /\ LexIdle /\ SumIdle /\ StripIdle /\ ClientIdle

\* One call of ParseLedger on a transaction with one posting line.
SpecPosting == InitPosting /\ [][ParseOnceNext]_vars

InitNote ==
    NoteInit /\ MergeIdle /\ BalIdle /\ ValueIdle /\ TailIdle /\ FormatIdle /\ ListIdle /\ LexIdle /\ SumIdle /\ StripIdle /\ ClientIdle

\* One call of ParseLedger on a transaction with one posting and its note.
SpecNote == InitNote /\ [][ParseOnceNext]_vars

InitStrip ==
    StripInit /\ MergeIdle /\ BalIdle /\ ParseIdle /\ ValueIdle /\ TailIdle /\ FormatIdle /\ ListIdle /\ LexIdle /\ SumIdle /\ ClientIdle

\* File.StripHistory called twice on every transaction list within the
\* bounds.
SpecStrip == InitStrip /\ [][StripNext]_vars

InitClient ==
    ClientInit /\ MergeIdle /\ BalIdle /\ ParseIdle /\ ValueIdle /\ TailIdle /\ FormatIdle /\ ListIdle /\ LexIdle /\ SumIdle /\ StripIdle

\* NewClient on every log file within the bounds, then up to MaxCalls calls
\* of AddTransaction, AddTransactionEdit and GetTransactions by one
\* goroutine.
SpecClient == InitClient /\ [][ClientNext]_vars

InitBalances ==
    BalancesInit /\ MergeIdle /\ BalIdle /\ ParseIdle /\ ValueIdle /\ TailIdle /\ FormatIdle /\ ListIdle /\ LexIdle /\ SumIdle /\ StripIdle

\* GetBalances of one goroutine next to AddTransaction and
\* AddTransactionEdit of another.
SpecClientBalances == InitBalances /\ [][BalancesNext]_vars

InitConsumer ==
    ConsumerInit /\ MergeIdle /\ BalIdle /\ ParseIdle /\ ValueIdle /\ TailIdle /\ FormatIdle /\ ListIdle /\ LexIdle /\ SumIdle /\ StripIdle

\* An adding goroutine and one consumer of events that also reads.
SpecClientConsumer == InitConsumer /\ [][ConsumerNext]_vars

InitAttach ==
    AttachInit /\ MergeIdle /\ BalIdle /\ ParseIdle /\ ValueIdle /\ TailIdle /\ FormatIdle /\ ListIdle /\ LexIdle /\ SumIdle /\ StripIdle

\* Two goroutines calling AddAttachment.
SpecClientAttach == InitAttach /\ [][AttachNext]_vars

InitList ==
    ListInit /\ MergeIdle /\ BalIdle /\ ParseIdle /\ ValueIdle /\ TailIdle /\ FormatIdle /\ LexIdle /\ SumIdle /\ StripIdle /\ ClientIdle

\* File.Accounts and File.Payees on every File within the bounds.
SpecList == InitList /\ [][ListNext]_vars

InitLex ==
    LexInit /\ MergeIdle /\ BalIdle /\ ParseIdle /\ ValueIdle /\ TailIdle /\ FormatIdle /\ ListIdle /\ SumIdle /\ StripIdle /\ ClientIdle

\* The two readers on every source text within the bounds.
SpecLex == InitLex /\ [][LexNextStep]_vars

\* The same, where an operation that is running goes on.
SpecLexFair == InitLex /\ [][LexNextStep]_vars /\ WF_vars(LexLoop)

InitSum ==
    SumInit /\ MergeIdle /\ BalIdle /\ ParseIdle /\ ValueIdle /\ TailIdle /\ FormatIdle /\ ListIdle /\ LexIdle /\ StripIdle /\ ClientIdle

\* FormatSums on every map within the bounds.
SpecSum == InitSum /\ [][SumNext]_vars

InitDate ==
    DateInit /\ MergeIdle /\ BalIdle /\ ValueIdle /\ TailIdle /\ FormatIdle /\ ListIdle /\ LexIdle /\ SumIdle /\ StripIdle /\ ClientIdle

\* One call of ParseLedger on a transaction with a written date.
SpecDate == InitDate /\ [][ParseOnceNext]_vars

\* One call of ParseLedger on an input that may end anywhere.
SpecParseTruncated == InitTruncated /\ [][ParseOnceNext]_vars

\* File.Format on every File within the bounds.
SpecFormat == InitFormat /\ [][FormatNext]_vars

\* A call of LTail, then ZipperHTTP on the prefix of the File and the tail.
SpecTailMerge == InitTail /\ [][TailMergeNext]_vars

\* ------------------------------------------------------------------------
\* Properties of the merge
\* ------------------------------------------------------------------------

BothAtCursor == mpc = "zip" /\ InRange(a.T, i1) /\ InRange(b.T, i2)

HasKey(t, k) == k \in DOMAIN t.KVPairs

\* The key k tells x and y apart: one side only holds it, or both hold it
\* with different values.
Decides(x, y, k) ==
    \/ HasKey(x, k) /\ ~HasKey(y, k)
    \/ ~HasKey(x, k) /\ HasKey(y, k)
    \/ HasKey(x, k) /\ HasKey(y, k) /\ x.KVPairs[k] # y.KVPairs[k]

\* Under the deciding key k, x goes before y.
GoesFirst(x, y, k) ==
    \/ HasKey(x, k) /\ ~HasKey(y, k)
    \/ HasKey(x, k) /\ HasKey(y, k) /\ LexLess(x.KVPairs[k], y.KVPairs[k])

FirstDeciding(x, y) ==
    CHOOSE n \in 1..Len(TieKeys) :
        /\ Decides(x, y, TieKeys[n])
        /\ \A m \in 1..(n - 1) : ~Decides(x, y, TieKeys[m])

Orderable(x, y) ==
    x.Date # y.Date \/ \E n \in 1..Len(TieKeys) : Decides(x, y, TieKeys[n])

\* TRUE when the rule of dates and tie-break keys puts x before y.
RulePutsFirst(x, y) ==
    IF x.Date # y.Date THEN x.Date < y.Date
    ELSE GoesFirst(x, y, TieKeys[FirstDeciding(x, y)])

\* C2: while both files have a transaction at the cursor of the diverged
\* tail, the next transaction emitted is the one with the strictly earlier
\* date, and on equal dates the one the first deciding key of ID, RID, FITID
\* puts first (held by one side only: that side; held by both with different
\* values: the lexically smaller).
C2_ZipOrder ==
    [][ (BothAtCursor /\ Orderable(At(a.T, i1), At(b.T, i2)))
          => IF RulePutsFirst(At(a.T, i1), At(b.T, i2))
             THEN trs' = Append(trs, At(a.T, i1)) /\ i1' = i1 + 1 /\ i2' = i2
             ELSE trs' = Append(trs, At(b.T, i2)) /\ i2' = i2 + 1 /\ i1' = i1 ]_vars

\* A merge that met an equal-date pair ordered by FITID, by RID and by ID has
\* returned.
C2_Witness ==
    /\ mres.status = "ok"
    /\ \E j \in 1..(Len(trs) - 1) :
          /\ trs[j].Date = trs[j + 1].Date
          /\ trs[j] \in {a.T[k] : k \in (syncPoint + 2)..Len(a.T)}
          /\ trs[j + 1] \in {b.T[k] : k \in 2..Len(b.T)}
          /\ ~Decides(trs[j], trs[j + 1], "ID")
          /\ Decides(trs[j], trs[j + 1], "RID")

\* An identifier of b.T[0] occurs in a.T: the files share a sync point.
HasSyncPoint(A, B) ==
    /\ Len(B.T) > 0
    /\ \E k \in 1..Len(A.T) : A.T[k].Code = B.T[1].Code

\* C3: a merge of files that share no sync point returns the "no sync point
\* found" error and no File.
C3_NoSyncFails ==
    (mpc = "done" /\ Len(b.T) > 0 /\ ~HasSyncPoint(a, b))
        => (mres.status = "nosync" /\ mres.file = NoFile)

\* C4: when the master ends at the sync point and b has transactions after
\* its first, the merge returns a's transactions followed by b's remaining
\* ones.
C4_MasterEndsAtSync ==
    (mpc = "done" /\ HasSyncPoint(a, b) /\ syncPoint = Len(a.T) - 1 /\ Len(b.T) > 1)
        => /\ mres.status = "ok"
           /\ mres.file.T = a.T \o SubSeq(b.T, 2, Len(b.T))

\* C5: when the transactions at the two cursors of the diverged tails have
\* equal dates and no key of ID, RID, FITID tells them apart, the merge
\* returns the "could not order" error and no File.
C5_Unorderable ==
    [][ (BothAtCursor /\ ~Orderable(At(a.T, i1), At(b.T, i2)))
          => (mpc' = "done" /\ mres'.status = "noorder" /\ mres'.file = NoFile) ]_vars

\* A merge ended on two transactions it could not order, after emitting some.
C5_Witness ==
    /\ mpc = "done"
    /\ mres.status = "noorder"
    /\ InRange(a.T, i1) /\ InRange(b.T, i2)
    /\ At(a.T, i1).Code # At(b.T, i2).Code
    /\ Len(trs) > 0

\* Every identifier names one transaction: no code occurs twice in a file,
\* and transactions of the two files with the same code are equal.
UniqueIds(A, B) ==
    /\ \A j, k \in 1..Len(A.T) : A.T[j].Code = A.T[k].Code => j = k
    /\ \A j, k \in 1..Len(B.T) : B.T[j].Code = B.T[k].Code => j = k
    /\ \A j \in 1..Len(A.T), k \in 1..Len(B.T) :
          A.T[j].Code = B.T[k].Code => A.T[j] = B.T[k]

\* C6: when the files share a sync point and both merge(A, B) and
\* merge(B, A) return a File, the two Files hold the same transactions in
\* the same order. In the second run b holds A and a holds B.
C6_ArgumentOrder ==
    (mpc = "done" /\ run = 2 /\ HasSyncPoint(b, a) /\ UniqueIds(a, b)
       /\ first.status = "ok" /\ mres.status = "ok")
        => first.file.T = mres.file.T

\* ------------------------------------------------------------------------
\* Properties of the balance engine
\* ------------------------------------------------------------------------

NullCount(ps) == Cardinality({k \in 1..Len(ps) : ps[k].Null})

\* The sum of the stated (non-null) values of the first n postings put on an
\* account of the set accs.
RECURSIVE StatedSum(_, _, _)
StatedSum(ps, accs, n) ==
    IF n = 0 THEN 0
    ELSE StatedSum(ps, accs, n - 1)
         + (IF ~ps[n].Null /\ ps[n].Account \in accs THEN ps[n].Value ELSE 0)

RECURSIVE MapSum(_, _)
MapSum(m, keys) ==
    IF keys = {} THEN 0
    ELSE LET k == CHOOSE x \in keys : TRUE
         IN  m[k] + MapSum(m, keys \ {k})

\* What the claim says Balance returns as the account map: every account's
\* net stated value, the account of the null posting (if any) receiving the
\* negated sum of all stated values on top.
NetMap(ps) ==
    [acc \in {ps[k].Account : k \in 1..Len(ps)} |->
        StatedSum(ps, {acc}, Len(ps))
        + (IF \E k \in 1..Len(ps) : ps[k].Null /\ ps[k].Account = acc
           THEN 0 - StatedSum(ps, Accounts, Len(ps)) ELSE 0)]

\* C7: whenever Canonicalize has returned no error, a Balance call made
\* afterwards reports the transaction balanced.
C7_CanonicalizeThenBalance ==
    (bal.called /\ bal.after = "ok") => bal.ok

\* Canonicalize filled in a null posting with a non-zero value and Balance
\* was called afterwards.
C7_Witness ==
    /\ bal.called /\ bal.after = "ok" /\ bal.ok
    /\ postings # orig
    /\ Len(orig) = 3

\* C8: a transaction with two or more null postings makes Canonicalize
\* return the multiple-null error and leave every posting as it was, and
\* makes Balance return false and no account map.
C8_MultipleNull ==
    NullCount(orig) >= 2 =>
        /\ postings = orig
        /\ canon \in {"none", "multiplenull"}
        /\ bal.called => (~bal.ok /\ bal.accounts = NilMap)

\* Both calls were made on a transaction whose first and last postings are
\* null with a stated non-zero posting between them.
C8_Witness ==
    /\ Len(orig) = 3
    /\ orig[1].Null /\ ~orig[2].Null /\ orig[3].Null
    /\ orig[2].Value # 0
    /\ canon = "multiplenull"
    /\ bal.called

\* C9: with exactly one null posting Balance reports balanced and returns
\* the account map in which the null posting's account receives the negated
\* sum of all stated values on top of what is stated for it, so the map sums
\* to zero; with no null posting it reports balanced exactly when the stated
\* values sum to zero and the map holds each account's net stated value.
C9_BalanceResult ==
    bal.called =>
        /\ NullCount(orig) = 1 =>
              /\ bal.ok
              /\ bal.accounts = NetMap(orig)
              /\ MapSum(bal.accounts, DOMAIN bal.accounts) = 0
        /\ NullCount(orig) = 0 =>
              /\ bal.ok <=> (StatedSum(orig, Accounts, Len(orig)) = 0)
              /\ bal.accounts = NetMap(orig)

\* Balance was called on a transaction whose one null posting shares its
\* account with a stated posting, the stated values not summing to zero.
C9_Witness ==
    /\ bal.called
    /\ NullCount(orig) = 1
    /\ \E j, k \in 1..Len(orig) :
          /\ orig[j].Null /\ ~orig[k].Null
          /\ orig[j].Account = orig[k].Account
          /\ orig[k].Value # 0
    /\ StatedSum(orig, Accounts, Len(orig)) # 0

\* ------------------------------------------------------------------------
\* Properties of the parser and of the formatter
\* ------------------------------------------------------------------------

RECURSIVE Pow10(_)
Pow10(n) == IF n = 0 THEN 1 ELSE 10 * Pow10(n - 1)

\* The value the amount am denotes in units of 1/10000: its whole part times
\* 10000 plus its fraction scaled by the number of digits written.
WrittenValue(am) ==
    LET w == DigitsValue(SelectSeq(am.whole, LAMBDA c : c # ","))
        f == DigitsValue(am.frac) * Pow10(4 - Len(am.frac))
    IN  IF am.sign = <<"-">> THEN 0 - (w * 10000 + f) ELSE w * 10000 + f

\* The input was written from an amount and its parse has returned.
AmountParsed == ppc = "done" /\ pass = 1 /\ amount # NoAmount

\* C10: an amount written with at most four fractional digits is stored as
\* sign x (whole x 10000 + fraction scaled by the number of fractional digits
\* written), and an amount with more than four fractional digits is a
\* bad-amount error.
C10_AmountScaling ==
    AmountParsed =>
        IF Len(amount.frac) <= 4
        THEN /\ perr = NoErr
             /\ Len(rtn) = 1
             /\ Len(rtn[1].Postings) = 1
             /\ ~rtn[1].Postings[1].Null
             /\ rtn[1].Postings[1].Value = WrittenValue(amount)
        ELSE perr.kind = "badamount"

\* Equality of two transactions in everything but the line they start on.
SameTransaction(t, u) == [t EXCEPT !.Line = 0] = [u EXCEPT !.Line = 0]

\* The formatted output of a successful parse has been parsed in turn.
Reparsed == ppc = "done" /\ pass = 2

\* C1: parsing the formatted output of a successful parse succeeds and gives
\* transactions equal to those of the first parse in every field but the
\* line number.
C1_RoundTrip ==
    Reparsed =>
        /\ perr = NoErr
        /\ Len(rtn) = Len(parsed1)
        /\ \A k \in 1..Len(rtn) : SameTransaction(rtn[k], parsed1[k])

\* ------------------------------------------------------------------------
\* Properties of FormatValue
\* ------------------------------------------------------------------------

\* |v| in units of 1/100, the third fractional digit rounded half-to-even.
HalfEvenCents(v) ==
    LET m == IF v < 0 THEN 0 - v ELSE v
        c == m \div 100
        t == (m \div 10) % 10
    IN  IF t > 5 \/ (t = 5 /\ c % 2 = 1) THEN c + 1 ELSE c

\* The digits of n / 100 with two fractional digits.
TwoDigitDecimal(n) ==
    NatChars(n \div 100) \o <<".", DigitChars[((n \div 10) % 10) + 1], DigitChars[(n % 10) + 1]>>

\* The decimal texts of v / 10000 rounded to two fractional digits; a
\* negative value that rounds to zero may or may not keep its sign.
RoundedTexts(v) ==
    IF v >= 0 THEN {<<"$">> \o TwoDigitDecimal(HalfEvenCents(v))}
    ELSE {<<"$", "-">> \o TwoDigitDecimal(HalfEvenCents(v))}
         \cup (IF HalfEvenCents(v) = 0 THEN {<<"$">> \o TwoDigitDecimal(0)} ELSE {})

\* FormatValue has returned for a value that was stored as such.
ValueShown == vpc = "shown" /\ written = NoAmount

\* C12: FormatValue prints v / 10000 rounded half-to-even on the third
\* fractional digit, with the carry into the whole part, as a whole part and
\* exactly two fractional digits, for negative values too.
C12_FormatValueRounds == ValueShown => shown \in RoundedTexts(stored)

\* The text s without a leading '-'.
Unsigned(s) == IF s # <<>> /\ Head(s) = "-" THEN Tail(s) ELSE s

\* s is an optional '-', digits, a '.' and one to four digits.
IsDecimal(s) ==
    \E k \in 2..(Len(Unsigned(s)) - 1) :
        /\ Unsigned(s)[k] = "."
        /\ Len(Unsigned(s)) - k <= 4
        /\ \A j \in 1..Len(Unsigned(s)) : j # k => Unsigned(s)[j] \in Digits

\* The number the decimal text s writes, in units of 1/10000.
DecimalValue(s) ==
    LET u == Unsigned(s)
        k == CHOOSE j \in 1..Len(u) : u[j] = "."
        n == DigitsValue(SubSeq(u, 1, k - 1)) * 10000
                 + DigitsValue(SubSeq(u, k + 1, Len(u))) * Pow10(4 - (Len(u) - k))
    IN  IF u = s THEN n ELSE 0 - n

\* An amount with at most four fractional digits was written.
WrittenShort == written # NoAmount /\ Len(written.frac) <= 4

\* C11: an amount written with at most four fractional digits is parsed, and
\* FormatValue of the parsed value writes, behind the '$', a decimal number
\* equal to the amount written.
C11_AmountRoundTrip ==
    WrittenShort =>
        /\ vpc # "rejected"
        /\ vpc = "shown" =>
              /\ IsDecimal(Tail(shown))
              /\ DecimalValue(Tail(shown)) = WrittenValue(written)

\* ------------------------------------------------------------------------
\* Properties of LTail
\* ------------------------------------------------------------------------

\* The transaction t carries the id and, when a rid is given, the rid.
TailMatches(t, id, rid) ==
    /\ "ID" \in DOMAIN t.KVPairs
    /\ t.KVPairs["ID"] = id
    /\ rid # <<>> => ("RID" \in DOMAIN t.KVPairs /\ t.KVPairs["RID"] = rid)

\* The positions, counted from 0, of the transactions of T that match.
MatchPositions(T, id, rid) == {k \in 0..(Len(T) - 1) : TailMatches(At(T, k), id, rid)}

\* The largest number of a non-empty set of numbers.
Largest(S) == CHOOSE k \in S : \A j \in S : j <= k

\* A call of LTail has ended, by a return or by a panic.
TailCalled == tpc = "returned"

\* C13: when a transaction of F matches, LTail returns as transactions the
\* suffix of F.T that starts at the last transaction that matches.
C13_TailSuffix ==
    (TailCalled /\ tailCalls = 1 /\ MatchPositions(tailF0.T, tailId, tailRid) # {}) =>
        /\ tailRes.status = "ok"
        /\ tailRes.file.T =
               SubSeq(tailF0.T, Largest(MatchPositions(tailF0.T, tailId, tailRid)) + 1,
                      Len(tailF0.T))

\* LTail returned a suffix that holds, behind its first transaction, a
\* transaction with the id but another RID.
C13_Witness ==
    /\ TailCalled
    /\ tailRes.status = "ok"
    /\ tailRid # <<>>
    /\ \E k \in 2..Len(tailRes.file.T) :
          /\ TailMatches(tailRes.file.T[k], tailId, <<>>)
          /\ ~TailMatches(tailRes.file.T[k], tailId, tailRid)

\* C14: when no transaction of F matches, LTail returns a File with all the
\* transactions of F.
C14_TailNoMatch ==
    (TailCalled /\ tailCalls = 1 /\ MatchPositions(tailF0.T, tailId, tailRid) = {}) =>
        /\ tailRes.status = "ok"
        /\ tailRes.file.T = tailF0.T

\* The directives of D anchored behind position i, each anchor reduced by i.
RebasedAfter(D, i) ==
    LET kept == SelectSeq(D, LAMBDA d : d.FoundBefore > i)
    IN  [k \in 1..Len(kept) |-> [kept[k] EXCEPT !.FoundBefore = @ - i]]

\* The position LTail cut the File at.
CutPosition == Len(tailF0.T) - Len(tailRes.file.T)

\* C15: LTail cutting at position i returns the directives of F anchored
\* behind i, in their order, with anchors reduced by i, and no other
\* directive.
C15_TailDirectives ==
    (TailCalled /\ tailCalls = 1 /\ tailRes.status = "ok") =>
        tailRes.file.D = RebasedAfter(tailF0.D, CutPosition)

\* The merge of the prefix with the tail has ended.
TailMerged == tpc = "merging" /\ mpc = "done"

\* C16: merging the prefix of F up to the position LTail found with what
\* LTail returned gives a File whose transactions are those of F.
C16_TailThenMerge ==
    TailMerged => (mres.status = "ok" /\ mres.file.T = tailF0.T)

\* C17: LTail leaves the File it is called on as it was, and a second call
\* with the same arguments returns what the first returned.
C17_TailLeavesInput ==
    (TailCalled /\ tailRes.status = "ok") =>
        /\ tailF = tailF0
        /\ tailCalls = 2 => tailRes = tailFirst

\* ------------------------------------------------------------------------
\* Properties of the directives of a merged File
\* ------------------------------------------------------------------------

\* Keyword, argument and sub-lines of the two directives are the same.
Identical(d, e) == d.Type = e.Type /\ d.Argument = e.Argument /\ d.Lines = e.Lines

\* The directives of B that are identical to no directive of A.
NewIn(A, B) == SelectSeq(B, LAMBDA d : \A k \in 1..Len(A) : ~Identical(d, A[k]))

\* ZipperHTTP returned a File.
Merged == mpc = "done" /\ mres.status = "ok"

C19_AnchorsReset ==
    Merged => \A k \in 1..Len(mres.file.D) : mres.file.D[k].FoundBefore = 0

\* ------------------------------------------------------------------------
\* File.Format
\* ------------------------------------------------------------------------

\* File.Format has returned nil.
FormatSucceeded == fpc = "done" /\ fres = "ok"

\* The directives, respectively the transactions, in the order they were
\* written.
WrittenDirectives ==
    LET ds == SelectSeq(fout, LAMBDA u : u.directive)
    IN  [n \in 1..Len(ds) |-> ds[n].unit]

WrittenTransactions ==
    LET ts == SelectSeq(fout, LAMBDA u : ~u.directive)
    IN  [n \in 1..Len(ts) |-> ts[n].unit]

\* How many transactions were written before the n-th unit of the output.
TransactionsBefore(n) ==
    Cardinality({m \in 1..(n - 1) : ~fout[m].directive})

\* The directives of D with the anchors k..last: anchor by anchor, those of
\* one anchor in the order they have in D.
RECURSIVE AnchorByAnchor(_, _, _)
AnchorByAnchor(D, k, last) ==
    IF k > last THEN <<>>
    ELSE SelectSeq(D, LAMBDA d : d.FoundBefore = k) \o AnchorByAnchor(D, k + 1, last)

\* C20: when File.Format succeeds, the transactions are written once each in
\* the order of the list, every directive of the File is written once, a
\* directive with the anchor k stands behind exactly k transactions (so
\* between transaction k-1 and transaction k, and behind the last one when k
\* is the number of transactions), and the directives of one anchor keep the
\* order they had in the list before the call.
C20_FormatInterleaves ==
    FormatSucceeded =>
        /\ WrittenTransactions = fmtF0.T
        /\ Len(WrittenDirectives) = Len(fmtF0.D)
        /\ WrittenDirectives = AnchorByAnchor(fmtF0.D, 0, Len(fmtF0.T))
        /\ \A n \in 1..Len(fout) :
               fout[n].directive => fout[n].unit.FoundBefore = TransactionsBefore(n)

\* A File of two transactions was formatted whose directive list was not in
\* the order of the anchors, held two different directives of one anchor and
\* one directive behind the last transaction.
C20_Witness ==
    /\ FormatSucceeded
    /\ Len(fmtF0.T) = 2
    /\ fmtF0.D # fmtF.D
    /\ \E i, j \in 1..Len(fmtF0.D) :
           /\ i < j
           /\ fmtF0.D[i] # fmtF0.D[j]
           /\ fmtF0.D[i].FoundBefore = fmtF0.D[j].FoundBefore
    /\ \E i \in 1..Len(fmtF0.D) : fmtF0.D[i].FoundBefore = Len(fmtF0.T)

\* File.Format has returned.
FormatReturned == fpc = "done"

\* Every anchor of the File, as it was before the call, is a position
\* 0..len(T).
AnchorsInside ==
    \A n \in 1..Len(fmtF0.D) : fmtF0.D[n].FoundBefore \in 0..Len(fmtF0.T)

\* C21: File.Format returns ErrImproperInterleave exactly when an anchor of
\* the File lies outside 0..len(T), and nil otherwise, whatever the order of
\* the directive list was before the call.
C21_FormatError ==
    FormatReturned =>
        /\ fres \in {"ok", "ErrImproperInterleave"}
        /\ (fres = "ErrImproperInterleave") <=> ~AnchorsInside

\* File.Format returned nil for a File whose directive list was not in the
\* order of the anchors.
C21_Witness ==
    /\ FormatReturned
    /\ fres = "ok"
    /\ AnchorsInside
    /\ \E i, j \in 1..Len(fmtF0.D) :
           i < j /\ fmtF0.D[i].FoundBefore > fmtF0.D[j].FoundBefore

\* ------------------------------------------------------------------------
\* ParseLedger: what is returned
\* ------------------------------------------------------------------------

\* The call is in the loop of lines 370-381 with nothing left that could
\* end it: it never returns.
NeverReturns == ppc = "spin"

\* C22: a call of ParseLedger stops at the first malformed construct, and
\* what it returns is either no error, or an error together with no
\* transaction at all, whatever was parsed before the error.
C22_ErrorOrList ==
    /\ ~NeverReturns
    /\ ppc = "done" => (perr = NoErr \/ rtn = <<>>)

\* ------------------------------------------------------------------------
\* Attached comment lines
\* ------------------------------------------------------------------------

\* The text s without the blanks at its two ends.
Stripped(s) ==
    LET nb == {k \in 1..Len(s) : s[k] \notin {SP, TAB}}
    IN  IF nb = {} THEN <<>>
        ELSE SubSeq(s, CHOOSE k \in nb : \A m \in nb : k <= m,
                       CHOOSE k \in nb : \A m \in nb : k >= m)

\* The text s without the blanks at its start.
RECURSIVE StrippedLeft(_)
StrippedLeft(s) ==
    IF s # <<>> /\ s[1] \in {SP, TAB} THEN StrippedLeft(Tail(s)) ELSE s

\* The second comment line of the input: what stands between its ';' and
\* its line feed, without the blanks at its start.
CommentLine == StrippedLeft(SubSeq(text, Len(CommentPrefix) + 1, Len(text) - 1))

\* The positions of the ':' in s.
Colons(s) == {k \in 1..Len(s) : s[k] = ":"}

FirstColon(s) == CHOOSE k \in Colons(s) : \A m \in Colons(s) : k <= m

LastColon(s) == CHOOSE k \in Colons(s) : \A m \in Colons(s) : k >= m

\* The line starts with ':'.
IsTagLine(s) == s # <<>> /\ s[1] = ":"

\* The trimmed, non-empty texts between two neighbouring ':' of s.
TagsOf(s) ==
    {Stripped(SubSeq(s, c + 1, d - 1)) :
        <<c, d>> \in {p \in Colons(s) \X Colons(s) :
                        /\ p[1] < p[2]
                        /\ \A m \in Colons(s) : ~(p[1] < m /\ m < p[2])}} \ {<<>>}

\* Text that is not blank follows the last ':' of s.
TextBehindTags(s) == Stripped(SubSeq(s, LastColon(s) + 1, Len(s))) # <<>>

\* The first ':' of s stands directly before a blank and behind a text
\* without blanks.
IsKeyValueLine(s) ==
    /\ s # <<>>
    /\ s[1] # ":"
    /\ Colons(s) # {}
    /\ FirstColon(s) < Len(s)
    /\ s[FirstColon(s) + 1] \in {SP, TAB}
    /\ \A k \in 1..(FirstColon(s) - 1) : s[k] \notin {SP, TAB}

KeyOf(s) == SubSeq(s, 1, FirstColon(s) - 1)

ValueOf(s) == Stripped(SubSeq(s, FirstColon(s) + 1, Len(s)))

\* The pairs of the transaction before the second comment line: "a: x".
PairsBefore == [k \in {<<"a">>} |-> <<"x">>]

\* The call has returned.
CommentParsed == ppc = "done"

\* C23: the second comment line has exactly one outcome. A line starting
\* with ':' is an error when text follows its last ':', and otherwise adds
\* its tags and nothing else; a line whose first ':' stands before a blank
\* and behind a key without blanks sets that key to the trimmed rest,
\* replacing the value the key had, and adds nothing else; every other line
\* that is not empty adds one comment and nothing else.
C23_CommentOutcome ==
    CommentParsed =>
        IF IsTagLine(CommentLine)
        THEN IF TextBehindTags(CommentLine)
             THEN perr.kind = "malformedtagline" /\ rtn = <<>>
             ELSE /\ perr = NoErr
                  /\ rtn[1].Tags = TagsOf(CommentLine)
                  /\ rtn[1].KVPairs = PairsBefore
                  /\ rtn[1].Comments = <<>>
        ELSE IF IsKeyValueLine(CommentLine)
        THEN /\ perr = NoErr
             /\ rtn[1].Tags = {}
             /\ DOMAIN rtn[1].KVPairs = {<<"a">>, KeyOf(CommentLine)}
             /\ rtn[1].KVPairs[KeyOf(CommentLine)] = ValueOf(CommentLine)
             /\ KeyOf(CommentLine) # <<"a">> => rtn[1].KVPairs[<<"a">>] = <<"x">>
             /\ rtn[1].Comments = <<>>
        ELSE /\ perr = NoErr
             /\ rtn[1].Tags = {}
             /\ rtn[1].KVPairs = PairsBefore
             /\ rtn[1].Comments =
                    IF CommentLine = <<>> THEN <<>> ELSE <<Stripped(CommentLine)>>

\* The line "a: b" has been parsed behind the line "a: x": the key "a" now
\* has the later value.
C23_Witness ==
    /\ CommentParsed
    /\ perr = NoErr
    /\ IsKeyValueLine(CommentLine)
    /\ KeyOf(CommentLine) = <<"a">>
    /\ rtn[1].KVPairs[<<"a">>] = <<"b">>

\* ------------------------------------------------------------------------
\* The account name of a posting
\* ------------------------------------------------------------------------

\* The posting line of the input: what stands between the tab that starts
\* it and its line feed, without the blanks at its start.
PostingLine == StrippedLeft(SubSeq(text, Len(PostingPrefix) + 1, Len(text) - 1))

\* The positions of s at which an account name ends: a tab, the first of two
\* spaces, and the position behind the text (where the line feed stands).
NameEnds(s) ==
    {k \in 1..(Len(s) + 1) :
        \/ k = Len(s) + 1
        \/ s[k] = TAB
        \/ s[k] = SP /\ k < Len(s) /\ s[k + 1] = SP}

\* The text of s before the first of them.
NameOf(s) == SubSeq(s, 1, (CHOOSE k \in NameEnds(s) : \A m \in NameEnds(s) : k <= m) - 1)

\* The call has returned.
PostingParsed == ppc = "done"

\* C24: a posting line without an account name fails with the
\* malformed-transaction error, and the account of a posting that was read
\* is the text of its line up to the first tab, line feed or pair of
\* spaces, single spaces included.
C24_AccountName ==
    PostingParsed =>
        IF PostingLine = <<>>
        THEN perr.kind = "malformed" /\ rtn = <<>>
        ELSE perr = NoErr =>
                 /\ Len(rtn) = 1
                 /\ Len(rtn[1].Postings) = 1
                 /\ rtn[1].Postings[1].Account = NameOf(PostingLine)

\* A posting was read whose account name holds a single space and ends at a
\* pair of spaces.
C24_Witness ==
    /\ PostingParsed
    /\ perr = NoErr
    /\ rtn[1].Postings[1].Account = <<"A", SP, "A">>
    /\ Len(PostingLine) > 4

\* ------------------------------------------------------------------------
\* ParseDate
\* ------------------------------------------------------------------------

\* The written date of the input: the text before its first space.
WrittenDate ==
    SubSeq(text, 1, (CHOOSE k \in 1..Len(text) :
                        text[k] = SP /\ \A m \in 1..(k - 1) : text[m] # SP) - 1)

\* The positions of s that hold no digit.
NonDigits(s) ==
    {k \in 1..Len(s) : s[k] \notin {"0", "1", "2", "3", "4", "5", "6", "7", "8", "9"}}

\* The first and the second of them.
Sep1(s) == CHOOSE k \in NonDigits(s) : \A m \in NonDigits(s) : k <= m

Sep2(s) == CHOOSE k \in NonDigits(s) : \A m \in NonDigits(s) : k >= m

\* s is four digits, one of '/', '-', '.', one or two digits, one of them
\* again, and one or two digits.
DateShape(s) ==
    /\ Cardinality(NonDigits(s)) = 2
    /\ s[Sep1(s)] \in {"/", "-", "."}
    /\ s[Sep2(s)] \in {"/", "-", "."}
    /\ Sep1(s) = 5
    /\ Sep2(s) - Sep1(s) - 1 \in 1..2
    /\ Len(s) - Sep2(s) \in 1..2

\* The year, month and day such a text writes.
DateWritten(s) ==
    [y |-> DigitsValue(SubSeq(s, 1, Sep1(s) - 1)),
     m |-> DigitsValue(SubSeq(s, Sep1(s) + 1, Sep2(s) - 1)),
     d |-> DigitsValue(SubSeq(s, Sep2(s) + 1, Len(s)))]

\* The call has returned.
DateParsed == ppc = "done"

\* C25: a date of four year digits, a separator, one or two month digits, a
\* separator and one or two day digits is read as that year, month and day,
\* and a text of any other shape is a bad-date error.
C25_DateShapes ==
    DateParsed =>
        IF DateShape(WrittenDate)
        THEN /\ perr = NoErr
             /\ Len(rtn) = 1
             /\ rtn[1].Date = DateWritten(WrittenDate)
        ELSE perr.kind = "baddate"

\* ------------------------------------------------------------------------
\* File.Accounts and File.Payees
\* ------------------------------------------------------------------------

\* The indices of the directives of the File with the keyword word, in the
\* order of the list.
IndicesOf(word) ==
    LET RECURSIVE from(_)
        from(k) == IF k > Len(listF.D) THEN <<>>
                   ELSE IF listF.D[k].Type = word THEN <<k - 1>> \o from(k + 1)
                   ELSE from(k + 1)
    IN  from(1)

\* The indices and the names of the entries of a returned list.
Listed(res) ==
    [k \in 1..Len(res.list) |-> <<res.list[k].DirectiveIndex, res.list[k].Name>>]

Expected(word) ==
    [k \in 1..Len(IndicesOf(word)) |->
        <<IndicesOf(word)[k], listF.D[IndicesOf(word)[k] + 1].Argument>>]

\* C26: File.Payees returns one entry for every directive with the keyword
\* "payee" and none for any other directive, in the order of the list, as
\* File.Accounts, where it succeeds, does for the keyword "account".
C26_PayeesListed ==
    /\ payees # NoList => payees.status = "ok" /\ Listed(payees) = Expected("payee")
    /\ accts.status = "ok" => Listed(accts) = Expected("account")

\* ------------------------------------------------------------------------
\* The Character Reader
\* ------------------------------------------------------------------------

\* Neither the current nor the lookahead character of the reader r is a
\* carriage return, unless its end-of-input flag is set.
NoCarriageReturn(r) ==
    /\ ~r.EOF => r.C # "\r"
    /\ ~r.NEOF => r.NC # "\r"

\* C27: after any number of advances and consuming operations over any
\* source text, neither reader shows a carriage return as its current or
\* its lookahead character while the flag of that character is false.
C27_NoCarriageReturn ==
    NoCarriageReturn(lexR) /\ NoCarriageReturn(plainR)

\* Both readers have passed a source text that starts with a carriage
\* return and holds two of them in a row, and show its last character.
C27_Witness ==
    /\ Len(lexIn) = MaxInput
    /\ lexIn[1] = "\r"
    /\ \E k \in 1..(Len(lexIn) - 1) : lexIn[k] = "\r" /\ lexIn[k + 1] = "\r"
    /\ lexIn[Len(lexIn)] = "a"
    /\ lexR.NEOF /\ ~lexR.EOF /\ lexR.C = "a"
    /\ plainR.NEOF /\ ~plainR.EOF /\ plainR.C = "a"

\* What the source of lexR has yielded so far.
Yielded == SubSeq(lexIn, 1, Len(lexIn) - Len(lexR.rest))

\* The number of line feeds in s.
LineFeeds(s) == Cardinality({k \in 1..Len(s) : s[k] = LF})

\* The number of characters of s behind its last line feed, carriage
\* returns not counted.
SinceLineFeed(s) ==
    Cardinality({k \in 1..Len(s) : s[k] # "\r" /\ \A m \in k..Len(s) : s[m] # LF})

\* C28: the Location of the lookahead character of the lex reader, which
\* was built with the start line 1, has the line 1 plus the number of line
\* feeds read so far and the column that is the number of characters read
\* since the last line feed.
C28_LocationCounts ==
    lexOp # "idle" =>
        /\ LocationLine(lexR.NL) = 1 + LineFeeds(Yielded)
        /\ LocationColumn(lexR.NL) = SinceLineFeed(Yielded)

\* C29: every consuming operation of the lex reader that is called returns,
\* and no step changes the reader once its end-of-input flag is set.
C29_OperationsReturn ==
    /\ [](lexOp \in {"Eat", "EatUntil", "ReadMatch", "ReadMatchLimit", "ReadUntil"}
            => <>(lexOp = "none"))
    /\ [][lexR.EOF => lexR' = lexR]_vars

\* ReadUntil was called for a character the source text does not hold and
\* has returned at the end of the input with the whole text in buf.
C29_Witness ==
    /\ lexOp = "none"
    /\ lexR.EOF
    /\ lexChars = {LF}
    /\ lexIn = [k \in 1..MaxInput |-> "a"]
    /\ lexBuf = lexIn

\* ------------------------------------------------------------------------
\* FormatSums
\* ------------------------------------------------------------------------

\* The map holds the account Assets:Cash and nothing else.
OnlyAssetsCash == DOMAIN sumAccounts = {<<"Assets", "Cash">>}

\* C30: for a map that holds only the account Assets:Cash with the value v,
\* FormatSums returns exactly one row, whose name is "Assets:Cash" without
\* indentation or any other character and whose value is FormatValue(v).
C30_SingleChildRow ==
    sumPc = "done" /\ OnlyAssetsCash =>
        sumRes = << <<(<<"Assets">> \o <<":">> \o <<"Cash">>),
                      FormatValue(sumAccounts[<<"Assets", "Cash">>])>> >>

\* ------------------------------------------------------------------------
\* The transactions of a merged File
\* ------------------------------------------------------------------------

\* The length of the run on which a.T from index i and b.T from index j
\* carry the same codes (0-based indices).
RECURSIVE AgreedRun(_, _, _, _)
AgreedRun(A, B, i, j) ==
    IF InRange(A.T, i) /\ InRange(B.T, j) /\ At(A.T, i).Code = At(B.T, j).Code
    THEN 1 + AgreedRun(A, B, i + 1, j + 1)
    ELSE 0

\* The last position (1-based) of a.T that carries the code of b.T[0].
LastSync(A, B) ==
    CHOOSE k \in 1..Len(A.T) :
        /\ A.T[k].Code = B.T[1].Code
        /\ \A m \in (k + 1)..Len(A.T) : A.T[m].Code # B.T[1].Code

\* The transactions of B that were not matched against A: all of them when
\* the files share no sync point, else those behind B's first transaction
\* and the agreed run.
Unmatched(A, B) ==
    IF HasSyncPoint(A, B)
    THEN SubSeq(B.T, 2 + AgreedRun(A, B, LastSync(A, B), 1), Len(B.T))
    ELSE B.T

\* out takes every element of x and of y exactly once and keeps the order
\* of x and the order of y.
RECURSIVE Interleaves(_, _, _)
Interleaves(out, x, y) ==
    IF out = <<>> THEN x = <<>> /\ y = <<>>
    ELSE \/ x # <<>> /\ Head(out) = Head(x) /\ Interleaves(Tail(out), Tail(x), y)
         \/ y # <<>> /\ Head(out) = Head(y) /\ Interleaves(Tail(out), x, Tail(y))

\* C33: a merge that returns a File takes every transaction of A and every
\* transaction of B that was not matched against A exactly once, each file's
\* transactions in their own order.
C33_NothingDropped ==
    (mpc = "done" /\ mres.status = "ok")
        => Interleaves(mres.file.T, a.T, Unmatched(a, b))

\* C34: a merge never reads a transaction list at an index outside its
\* bounds: it ends with a File or with an error.
C34_NoIndexOutOfRange ==
    mpc = "done" => mres.status \in {"ok", "nosync", "noorder"}

\* ------------------------------------------------------------------------
\* ReadUntilTrimmed
\* ------------------------------------------------------------------------

\* The note of the input as written: what stands between the ';' of the
\* posting line and its line feed.
WrittenNote == SubSeq(text, Len(NotePrefix) + 1, Len(text) - 1)

\* The call has returned the transaction with its posting.
NoteParsed ==
    /\ ppc = "done"
    /\ perr = NoErr
    /\ Len(rtn) = 1
    /\ Len(rtn[1].Postings) = 1

\* C40: the note ReadUntilTrimmed returns is the text before the line feed
\* without any space or tab at its start or at its end.
C40_NoteTrimmed ==
    NoteParsed => rtn[1].Postings[1].Note = Stripped(WrittenNote)

\* ------------------------------------------------------------------------
\* File.StripHistory
\* ------------------------------------------------------------------------

\* The ID of a transaction that has one.
IdOf(tr) == tr.KVPairs["ID"]

\* The positions of T that carry the ID of T[k].
Revisions(T, k) == {j \in 1..Len(T) : ~HasNoID(T[j]) /\ IdOf(T[j]) = IdOf(T[k])}

\* The positions of T that stay: the transactions without an ID and the
\* first revision of every ID.
Stays(T) == {k \in 1..Len(T) : HasNoID(T[k]) \/ \A j \in Revisions(T, k) : k <= j}

\* The n-th smallest element of the set S of numbers.
RECURSIVE Nth(_, _)
Nth(S, n) ==
    LET least == CHOOSE x \in S : \A y \in S : x <= y
    IN  IF n = 1 THEN least ELSE Nth(S \ {least}, n - 1)

\* What stands at position k after the history is gone: the transaction
\* itself when it has no ID, else the last revision of its ID.
Authoritative(T, k) ==
    IF HasNoID(T[k]) THEN T[k]
    ELSE T[CHOOSE j \in Revisions(T, k) : \A m \in Revisions(T, k) : m <= j]

\* T without its history.
WithoutHistory(T) ==
    [n \in 1..Cardinality(Stays(T)) |-> Authoritative(T, Nth(Stays(T), n))]

\* C32: after StripHistory every non-empty ID occurs on at most one
\* transaction; the list holds, in the order of the original, the
\* transactions without an ID and, at the place of each ID's first revision,
\* its last revision; a second call changes nothing.
C32_StripHistory ==
    stripCalls >= 1 =>
        /\ \A j, k \in 1..Len(stripF) :
              (~HasNoID(stripF[j]) /\ ~HasNoID(stripF[k]) /\ IdOf(stripF[j]) = IdOf(stripF[k]))
                  => j = k
        /\ stripFirst = WithoutHistory(stripF0)
        /\ stripF = stripFirst

\* StripHistory has run twice on a list that starts with the first revision
\* of p, goes on with a transaction of another ID and one with an empty ID,
\* and ends with a differing second revision of p.
C32_Witness ==
    /\ stripCalls = 2
    /\ Len(stripF0) = 4
    /\ \A k \in 1..4 : "ID" \in DOMAIN stripF0[k].KVPairs
    /\ IdOf(stripF0[1]) = "p" /\ IdOf(stripF0[4]) = "p"
    /\ stripF0[1] # stripF0[4]
    /\ IdOf(stripF0[2]) = "q"
    /\ IdOf(stripF0[3]) = ""
    /\ stripF = <<stripF0[4], stripF0[2], stripF0[3]>>

\* ------------------------------------------------------------------------
\* The lists of the client
\* ------------------------------------------------------------------------

\* NewClient has returned a client and p1 is between calls.
ClientReady == pcOf["p1"] = "idle"

\* The first revision of code c stands before the first revision of code d
\* in the log file.
FirstBefore(c, d) ==
    \E m \in 1..Len(ledger) :
        /\ ledger[m].Code = c
        /\ \A n \in 1..Len(ledger) : ledger[n].Code = d => m < n

\* C31: between calls the simplified list is in non-decreasing date order,
\* and transactions of the same date stand in the order of their first
\* revisions in the log file.
C31_SimpleSorted ==
    ClientReady =>
        \A j, k \in 1..Len(simple) :
            j < k => \/ simple[j].Date < simple[k].Date
                     \/ /\ simple[j].Date = simple[k].Date
                        /\ FirstBefore(simple[j].Code, simple[k].Code)

\* C35: between calls, for every known ID the index in simpleid points at
\* the entry of the simplified list that carries the ID, and that entry is
\* the last revision in byid.
C35_IndexPointsAtEntry ==
    ClientReady =>
        \A id \in DOMAIN simpleid :
            /\ InRange(simple, simpleid[id])
            /\ At(simple, simpleid[id]).Code = id
            /\ At(simple, simpleid[id]) = byid[id][Len(byid[id])]

\* The transactions of the log file that carry the code c.
Carrying(c) == {n \in 1..Len(ledger) : ledger[n].Code = c}

\* C39: AddTransaction on a balanced transaction never enters a loop it does
\* not leave, and when it has returned the code of the stored transaction is
\* carried by no other transaction.
C39_AddCompletes ==
    /\ pcOf["p1"] # "idloop"
    /\ (ClientReady /\ opOf["p1"] = "add" /\ retOf["p1"].status = "ok")
          => Cardinality(Carrying(trOf["p1"].Code)) = 1

\* ------------------------------------------------------------------------
\* The goroutines of the client
\* ------------------------------------------------------------------------

\* C36: while GetBalances waits for the read lock inside GetTransactions,
\* some goroutine can take a step, so the wait ends.
C36_GetBalancesReturns == pcOf["p1"] = "inner" => ENABLED BalancesNext

\* C37: while an add call waits at the send on client.Events with the write
\* lock held, some goroutine can take a step, so the send is received.
C37_AddReturns == pcOf["p1"] = "send" => ENABLED ConsumerNext

\* The last element of a non-empty list.
Last(s) == s[Len(s)]

\* The call of AddAttachment by p for transaction i1 has returned nil.
Attached(p) ==
    /\ opOf[p] = "attach"
    /\ pcOf[p] = "idle"
    /\ retOf[p].status = "ok"
    /\ trOf[p].Code = "i1"

\* C38: when the AddAttachment calls of both goroutines for transaction i1
\* have returned without error, the last revision of i1 lists the
\* attachment id of each.
C38_BothAttached ==
    (Attached("p1") /\ Attached("p2")) =>
        \A p \in {"p1", "p2"} :
            \E n \in 1..Len(AttachmentsOf(Last(byid["i1"]))) :
                AttachmentsOf(Last(byid["i1"]))[n] = Last(AttachmentsOf(trOf[p]))
====
